---- MODULE Spec2Model ----
(***************************************************************************)
(* A model of the research data store (researchDataStore.ts), of the RAG   *)
(* service built on it (ragService.ts) and of the UI handlers that drive   *)
(* both (globalDataManager.ts, Hypotheses.tsx).                            *)
(*                                                                         *)
(* Text is modelled as TLA+ strings, character by character.  Numbers that *)
(* the code computes by division are exact rationals n/d; 0/0 is NaN.      *)
(* IEEE-754 rounding is not modelled.                                      *)
(***************************************************************************)
EXTENDS Integers, Sequences, FiniteSets, TLC

VARIABLES
    papers,         \* ResearchDataStore.papers: Map in insertion order, a sequence of SourcePaper
    hypotheses,     \* ResearchDataStore.hypotheses: id -> HypothesisWithSources
    knowledgeGraph, \* ResearchDataStore.knowledgeGraph: node id -> KnowledgeGraphNode
    connections,    \* ResearchDataStore.connections: connection id -> GraphConnection
    last,           \* the call that led to this state and how it ended
    validation,     \* a call of validateHypothesisAgainstSources: its arguments and result
    apiKey,         \* OpenAIService.apiKey
    rag,            \* generateRAGHypothesis: whether a call awaits the completion, and
                    \* with which source papers
    drive,          \* processPDFsFromDrive between processPDFContent and addSourcePaper
    viewSourcePapers, \* the Hypotheses view's sourcePapers state: ids of its papers
    globalCount,    \* the length of useGlobalData's sourcePapers list
    globalSourcePapers, \* useGlobalData's sourcePapers list: the ids of its papers
    validatedOk,    \* the text and source papers that validation accepted in the step
                    \* that led to this state, if it accepted any
    call            \* a call of one of the text functions: its arguments and its result

storeVars == <<papers, hypotheses, knowledgeGraph, connections>>
appVars ==
    <<apiKey, rag, drive, viewSourcePapers, globalCount, globalSourcePapers, validatedOk,
      call>>
nonStoreVars == <<validation, appVars>>
vars == <<papers, hypotheses, knowledgeGraph, connections, last, validation, appVars>>

----------------------------------------------------------------------------
(* Bounds of the model.                                                    *)

\* longest sourcePapers list handed to addHypothesis
MaxSources == 2
\* longest connections list of a node; an operation that would exceed it is not taken
MaxConn == 2
\* longest sourcePapers list handed to validateHypothesisAgainstSources
MaxValidated == 3
\* longest sourcePapers list of the global state; no PDF is taken from Drive beyond it
MaxGlobal == 2

----------------------------------------------------------------------------
(* Characters and strings.                                                 *)

Char(s, i) == SubSeq(s, i, i)

LowerChars == {"a","b","c","d","e","f","g","h","i","j","k","l","m",
               "n","o","p","q","r","s","t","u","v","w","x","y","z"}
UpperChars == {"A","B","C","D","E","F","G","H","I","J","K","L","M",
               "N","O","P","Q","R","S","T","U","V","W","X","Y","Z"}
DigitChars == {"0","1","2","3","4","5","6","7","8","9"}
\* the characters JavaScript's \s matches, among those the model uses
SpaceChars == {" ", "\t", "\n", "\r", "\f"}

LowerOf ==
    [c \in UpperChars |->
        CASE c = "A" -> "a" [] c = "B" -> "b" [] c = "C" -> "c" [] c = "D" -> "d"
          [] c = "E" -> "e" [] c = "F" -> "f" [] c = "G" -> "g" [] c = "H" -> "h"
          [] c = "I" -> "i" [] c = "J" -> "j" [] c = "K" -> "k" [] c = "L" -> "l"
          [] c = "M" -> "m" [] c = "N" -> "n" [] c = "O" -> "o" [] c = "P" -> "p"
          [] c = "Q" -> "q" [] c = "R" -> "r" [] c = "S" -> "s" [] c = "T" -> "t"
          [] c = "U" -> "u" [] c = "V" -> "v" [] c = "W" -> "w" [] c = "X" -> "x"
          [] c = "Y" -> "y" [] c = "Z" -> "z"]

IsLetter(c) == c \in LowerChars \/ c \in UpperChars
IsDigit(c) == c \in DigitChars
IsSpace(c) == c \in SpaceChars
\* \w of a JavaScript regular expression
IsWordChar(c) == IsLetter(c) \/ IsDigit(c) \/ c = "_"

\* the strings pieces[lo], ..., pieces[hi] put one after the other: what a replace or a
\* map over the characters of a string builds, piece by piece
RECURSIVE concat(_, _, _)
concat(pieces, lo, hi) ==
    IF lo > hi THEN ""
    ELSE IF lo = hi THEN pieces[lo]
    ELSE concat(pieces, lo, (lo + hi) \div 2) \o concat(pieces, (lo + hi) \div 2 + 1, hi)

toLowerFrom(s, i) ==
    concat([k \in 1..Len(s) |->
               IF Char(s, k) \in UpperChars THEN LowerOf[Char(s, k)] ELSE Char(s, k)],
           i, Len(s))

\* String.prototype.toLowerCase
toLowerCase(s) == toLowerFrom(s, 1)

\* whether t stands at index i of s
startsWithAt(s, t, i) ==
    i + Len(t) - 1 <= Len(s) /\ SubSeq(s, i, i + Len(t) - 1) = t

\* String.prototype.includes
includes(s, t) ==
    \E i \in 0..(Len(s) - Len(t)) : SubSeq(s, i + 1, i + Len(t)) = t

\* the first index >= i of s that holds no white space (Len(s)+1 when there is none)
RECURSIVE skipSpaces(_, _)
skipSpaces(s, i) ==
    IF i <= Len(s) /\ IsSpace(Char(s, i)) THEN skipSpaces(s, i + 1) ELSE i

\* the first index >= i of s that holds white space (Len(s)+1 when there is none)
RECURSIVE skipNonSpaces(_, _)
skipNonSpaces(s, i) ==
    IF i <= Len(s) /\ ~IsSpace(Char(s, i)) THEN skipNonSpaces(s, i + 1) ELSE i

\* s.split(/\s+/) from index i on: the pieces between the runs of white space; a
\* leading or trailing run yields an empty first or last piece, "" yields <<"">>
\* the pieces of s.split(/\s+/) from index i on that start at an index in lo..hi: a
\* piece starts at i, after every run of white space, and at the end of s when s ends
\* with white space
RECURSIVE splitSpacesIn(_, _, _, _)
splitSpacesIn(s, i, lo, hi) ==
    IF lo > hi THEN <<>>
    ELSE IF lo = hi
    THEN IF \/ lo = i
            \/ /\ lo > i
               /\ IsSpace(Char(s, lo - 1))
               /\ (lo > Len(s) \/ ~IsSpace(Char(s, lo)))
         THEN <<SubSeq(s, lo, skipNonSpaces(s, lo) - 1)>>
         ELSE <<>>
    ELSE splitSpacesIn(s, i, lo, (lo + hi) \div 2)
         \o splitSpacesIn(s, i, (lo + hi) \div 2 + 1, hi)

splitSpacesFrom(s, i) == splitSpacesIn(s, i, i, Len(s) + 1)

splitSpaces(s) == splitSpacesFrom(s, 1)

\* String.prototype.trim
RECURSIVE trimEnd(_)
trimEnd(s) ==
    IF Len(s) > 0 /\ IsSpace(Char(s, Len(s))) THEN trimEnd(SubSeq(s, 1, Len(s) - 1)) ELSE s

trim(s) == trimEnd(SubSeq(s, skipSpaces(s, 1), Len(s)))

\* Array.prototype.join
RECURSIVE join(_, _)
join(xs, sep) ==
    IF Len(xs) = 0 THEN ""
    ELSE IF Len(xs) = 1 THEN xs[1]
    ELSE xs[1] \o sep \o join(Tail(xs), sep)

\* the first index >= i of s at which t stands (Len(s)+1 when there is none)
RECURSIVE indexOfIn(_, _, _, _)
indexOfIn(s, t, lo, hi) ==
    IF lo > hi THEN Len(s) + 1
    ELSE IF lo = hi THEN (IF startsWithAt(s, t, lo) THEN lo ELSE Len(s) + 1)
    ELSE LET l == indexOfIn(s, t, lo, (lo + hi) \div 2)
         IN  IF l <= Len(s) THEN l ELSE indexOfIn(s, t, (lo + hi) \div 2 + 1, hi)

indexOf(s, t, i) == indexOfIn(s, t, i, Len(s))

\* s.split(sep) for a non-empty string sep
RECURSIVE split(_, _)
split(s, sep) ==
    LET i == indexOf(s, sep, 1)
    IN  IF i > Len(s) THEN <<s>>
        ELSE <<SubSeq(s, 1, i - 1)>> \o split(SubSeq(s, i + Len(sep), Len(s)), sep)

\* s.replace(t, ''): the first occurrence of t removed
removeFirst(s, t) ==
    LET i == indexOf(s, t, 1)
    IN  IF i > Len(s) THEN s
        ELSE SubSeq(s, 1, i - 1) \o SubSeq(s, i + Len(t), Len(s))

\* .map(s => s.trim())
trimAll(xs) == [k \in 1..Len(xs) |-> trim(xs[k])]

\* .map(p => p.id)
idsOf(xs) == [i \in 1..Len(xs) |-> xs[i].id]

Range(xs) == {xs[i] : i \in 1..Len(xs)}

\* all sequences over S of length at most n
SeqsUpTo(S, n) == UNION {[1..k -> S] : k \in 0..n}

----------------------------------------------------------------------------
(* Numbers: exact rationals n/d with d > 0; d = 0 is NaN (0/0).            *)

RECURSIVE GCD(_, _)
GCD(a, b) == IF b = 0 THEN a ELSE GCD(b, a % b)

NaN == [n |-> 0, d |-> 0]
IsNaN(r) == r.d = 0

Rat(n, d) ==
    IF d = 0 THEN NaN
    ELSE LET g == GCD(IF n < 0 THEN -n ELSE n, d)
         IN  [n |-> n \div g, d |-> d \div g]

Num(n) == Rat(n, 1)
RatLt(a, b) == ~IsNaN(a) /\ ~IsNaN(b) /\ a.n * b.d < b.n * a.d
RatLe(a, b) == ~IsNaN(a) /\ ~IsNaN(b) /\ a.n * b.d <= b.n * a.d
RatAdd(a, b) == IF IsNaN(a) \/ IsNaN(b) THEN NaN ELSE Rat(a.n * b.d + b.n * a.d, a.d * b.d)
RatMul(a, b) == IF IsNaN(a) \/ IsNaN(b) THEN NaN ELSE Rat(a.n * b.n, a.d * b.d)
\* a / k for a natural k; the model only divides by 0 when a is 0 (NaN)
RatDivNat(a, k) == IF IsNaN(a) THEN NaN ELSE Rat(a.n, a.d * k)
\* Math.min: NaN when either argument is NaN
MathMin(a, b) == IF IsNaN(a) \/ IsNaN(b) THEN NaN ELSE IF RatLt(b, a) THEN b ELSE a

----------------------------------------------------------------------------
(* The research data store.  st is the store's four Maps.  A SourcePaper   *)
(* held by a hypothesis is a reference: it is modelled by the paper's id.  *)
(* Time stamps and tags are left out: no operation reads them.             *)

Undefined == "undefined"

EmptyMap == <<>>
MapHas(m, k) == k \in DOMAIN m
MapSet(m, k, v) == (k :> v) @@ m

\* this.papers as a Map in insertion order
PaperIndex(ps, id) == IF \E i \in 1..Len(ps) : ps[i].id = id
                      THEN CHOOSE i \in 1..Len(ps) : ps[i].id = id
                      ELSE 0
PapersHas(ps, id) == PaperIndex(ps, id) # 0
PapersSet(ps, paper) ==
    IF PapersHas(ps, paper.id)
    THEN [ps EXCEPT ![PaperIndex(ps, paper.id)] = paper]
    ELSE Append(ps, paper)
PaperIdsOf(ps) == {ps[i].id : i \in 1..Len(ps)}

EmptyStore ==
    [papers |-> <<>>, hypotheses |-> EmptyMap, knowledgeGraph |-> EmptyMap,
     connections |-> EmptyMap]

PaperNodeId(paperId) == "paper_" \o paperId
HypothesisNodeId(hypothesisId) == "hypothesis_" \o hypothesisId
ConnectionId(nodeId, paperNodeId) == nodeId \o "_to_" \o paperNodeId

addPaper(st, paper) ==
    LET paperNode ==
            [id |-> PaperNodeId(paper.id),
             label |-> paper.title,
             type |-> "paper",
             sourceType |-> "paper_metadata",
             importance |-> Rat(8, 10),
             metadata |-> [description |-> "Research paper: " \o paper.title,
                           sourcePapers |-> <<paper.id>>],
             connections |-> <<>>]
    IN  [st EXCEPT !.papers = PapersSet(st.papers, paper),
                   !.knowledgeGraph = MapSet(st.knowledgeGraph, paperNode.id, paperNode)]

getPaper(st, id) ==
    IF PapersHas(st.papers, id) THEN st.papers[PaperIndex(st.papers, id)] ELSE Undefined

getAllPapers(st) == st.papers

\* one round of the forEach over hypothesis.sourcePapers: the connection to one paper
connectSourcePaper(st, hypothesis, nodeId, paperId) ==
    LET paperNodeId == PaperNodeId(paperId)
        connectionId == ConnectionId(nodeId, paperNodeId)
        connection ==
            [sourceId |-> nodeId,
             targetId |-> paperNodeId,
             type |-> "derived_from",
             weight |-> Rat(8, 10),
             evidence |->
                LET evs == SelectSeq(hypothesis.extractedEvidence,
                                     LAMBDA ev : ev.paperId = paperId)
                IN  [i \in 1..Len(evs) |->
                        [paperId |-> paperId,
                         evidenceText |-> evs[i].evidenceText,
                         confidence |-> RatDivNat(hypothesis.confidence, 100)]]]
        pushed == [st.knowledgeGraph EXCEPT ![nodeId].connections = Append(@, paperNodeId)]
    IN  [st EXCEPT
            !.connections = MapSet(st.connections, connectionId, connection),
            !.knowledgeGraph =
                IF MapHas(pushed, paperNodeId)
                THEN [pushed EXCEPT ![paperNodeId].connections = Append(@, nodeId)]
                ELSE pushed]

RECURSIVE connectSourcePapers(_, _, _, _)
connectSourcePapers(st, hypothesis, nodeId, i) ==
    IF i > Len(hypothesis.sourcePapers) THEN st
    ELSE connectSourcePapers(
            connectSourcePaper(st, hypothesis, nodeId, hypothesis.sourcePapers[i]),
            hypothesis, nodeId, i + 1)

\* a faulty variant, for comparison: the hypothesis is stored without the id of its graph node
storeHypothesisUnlinked(st, hypothesis) ==
    LET nodeId == HypothesisNodeId(hypothesis.id)
    IN  [st EXCEPT
            !.hypotheses =
                MapSet(st.hypotheses, hypothesis.id,
                       [id |-> hypothesis.id,
                        title |-> hypothesis.title,
                        description |-> hypothesis.description,
                        status |-> hypothesis.status,
                        confidence |-> hypothesis.confidence,
                        sourcePapers |-> hypothesis.sourcePapers,
                        extractedEvidence |-> hypothesis.extractedEvidence,
                        knowledgeGraphNodeId |-> Undefined]),
            !.knowledgeGraph =
                MapSet(st.knowledgeGraph, nodeId,
                       [id |-> nodeId,
                        label |-> hypothesis.title,
                        type |-> "hypothesis",
                        sourceType |-> "pdf_extracted",
                        importance |-> RatDivNat(hypothesis.confidence, 100),
                        metadata |-> [sourcePapers |-> hypothesis.sourcePapers,
                                      confidence |-> hypothesis.confidence,
                                      description |-> hypothesis.description],
                        connections |-> <<>>])]

\* the hypothesis and its graph node, as addHypothesis sets them before it connects them
storeHypothesisAndNode(st, hypothesis) ==
    LET nodeId == HypothesisNodeId(hypothesis.id)
        hypothesisNode ==
            [id |-> nodeId,
             label |-> hypothesis.title,
             type |-> "hypothesis",
             sourceType |-> "pdf_extracted",
             importance |-> RatDivNat(hypothesis.confidence, 100),
             metadata |-> [sourcePapers |-> hypothesis.sourcePapers,
                           confidence |-> hypothesis.confidence,
                           description |-> hypothesis.description],
             connections |-> <<>>]
        fullHypothesis ==
            [id |-> hypothesis.id,
             title |-> hypothesis.title,
             description |-> hypothesis.description,
             status |-> hypothesis.status,
             confidence |-> hypothesis.confidence,
             sourcePapers |-> hypothesis.sourcePapers,
             extractedEvidence |-> hypothesis.extractedEvidence,
             knowledgeGraphNodeId |-> nodeId]
    IN  [st EXCEPT !.hypotheses = MapSet(st.hypotheses, hypothesis.id, fullHypothesis),
                   !.knowledgeGraph = MapSet(st.knowledgeGraph, nodeId, hypothesisNode)]

missingPapers(st, hypothesis) ==
    SelectSeq(hypothesis.sourcePapers, LAMBDA paperId : ~PapersHas(st.papers, paperId))

\* the result of a call: threw with its error message and the store as the call left it
Threw(st, message) == [threw |-> TRUE, error |-> message, st |-> st]
Returned(st) == [threw |-> FALSE, error |-> "", st |-> st]

\* a faulty variant, for comparison: the hypothesis and its node are stored before the source papers are checked
addHypothesisStoresFirst(st, hypothesis) ==
    IF Len(missingPapers(st, hypothesis)) > 0
    THEN Threw(storeHypothesisAndNode(st, hypothesis),
               "Missing source papers: " \o join(missingPapers(st, hypothesis), ", "))
    ELSE Returned(connectSourcePapers(storeHypothesisAndNode(st, hypothesis), hypothesis,
                                      HypothesisNodeId(hypothesis.id), 1))

addHypothesis(st, hypothesis) ==
    IF Len(missingPapers(st, hypothesis)) > 0
    THEN Threw(st, "Missing source papers: " \o join(missingPapers(st, hypothesis), ", "))
    ELSE Returned(connectSourcePapers(storeHypothesisAndNode(st, hypothesis), hypothesis,
                                      HypothesisNodeId(hypothesis.id), 1))

updateHypothesisStatus(st, hypothesisId, newStatus) ==
    IF ~MapHas(st.hypotheses, hypothesisId) THEN st
    ELSE LET hypothesis == [st.hypotheses[hypothesisId] EXCEPT !.status = newStatus]
             nodeId == hypothesis.knowledgeGraphNodeId
         IN  [st EXCEPT
                !.hypotheses = MapSet(st.hypotheses, hypothesisId, hypothesis),
                !.knowledgeGraph =
                    IF nodeId # Undefined /\ MapHas(st.knowledgeGraph, nodeId)
                    THEN [st.knowledgeGraph EXCEPT
                            ![nodeId].metadata.confidence = hypothesis.confidence]
                    ELSE st.knowledgeGraph]

clearAll(st) ==
    [st EXCEPT !.papers = <<>>, !.hypotheses = EmptyMap, !.knowledgeGraph = EmptyMap,
               !.connections = EmptyMap]

\* the supporting evidence one paper contributes: its sections that contain the first
\* hypothesis word found in the paper
evidenceOfPaper(paper, foundConcepts, relevance) ==
    LET sections == SelectSeq(paper.relevantSections,
                              LAMBDA section :
                                  includes(toLowerCase(section), foundConcepts[1]))
    IN  [i \in 1..Len(sections) |->
            [paperId |-> paper.id, evidenceText |-> sections[i], relevance |-> relevance]]

\* one round of the forEach over sourcePapers; acc holds totalRelevance, supportingEvidence
\* and warnings
validateOnePaper(acc, hypothesisWords, paper) ==
    LET paperText == toLowerCase(paper.extractedText)
        foundConcepts ==
            SelectSeq(hypothesisWords, LAMBDA word : Len(word) > 3 /\ includes(paperText, word))
        relevance == Rat(Len(foundConcepts), Len(hypothesisWords))
    IN  IF Len(foundConcepts) > 0
        THEN [acc EXCEPT
                !.totalRelevance = RatAdd(@, relevance),
                !.supportingEvidence = @ \o evidenceOfPaper(paper, foundConcepts, relevance)]
        ELSE [acc EXCEPT
                !.warnings = Append(@, "No supporting evidence found in paper: " \o paper.title)]

RECURSIVE validatePapers(_, _, _, _)
validatePapers(acc, hypothesisWords, sourcePapers, i) ==
    IF i > Len(sourcePapers) THEN acc
    ELSE validatePapers(validateOnePaper(acc, hypothesisWords, sourcePapers[i]),
                        hypothesisWords, sourcePapers, i + 1)

\* a faulty variant, for comparison: the total relevance is not divided by the number of papers
validateNoAverage(hypothesisText, sourcePapers) ==
    LET hypothesisWords == splitSpaces(toLowerCase(hypothesisText))
        acc == validatePapers([totalRelevance |-> Num(0), supportingEvidence |-> <<>>,
                               warnings |-> <<>>], hypothesisWords, sourcePapers, 1)
        avgRelevance == IF Len(sourcePapers) = 0 THEN NaN ELSE acc.totalRelevance
    IN  [isValid |-> RatLt(Rat(3, 10), avgRelevance),
         confidence |-> MathMin(RatMul(avgRelevance, Num(100)), Num(95)),
         supportingEvidence |-> acc.supportingEvidence,
         warnings |-> acc.warnings]

validateHypothesisAgainstSources(hypothesisText, sourcePapers) ==
    LET hypothesisWords == splitSpaces(toLowerCase(hypothesisText))
        acc == validatePapers([totalRelevance |-> Num(0), supportingEvidence |-> <<>>,
                               warnings |-> <<>>], hypothesisWords, sourcePapers, 1)
        avgRelevance == RatDivNat(acc.totalRelevance, Len(sourcePapers))
    IN  [isValid |-> RatLt(Rat(3, 10), avgRelevance),
         confidence |-> MathMin(RatMul(avgRelevance, Num(100)), Num(95)),
         supportingEvidence |-> acc.supportingEvidence,
         warnings |-> acc.warnings]

----------------------------------------------------------------------------
(* RAGService (ragService.ts) and OpenAIService.                           *)

PunctuationChars == {".", ",", ";", ":", "!", "?"}

\* s from index i on, with a space put after every index in gaps
insertSpacesFrom(s, gaps, i) ==
    concat([k \in 1..Len(s) |-> Char(s, k) \o (IF k \in gaps THEN " " ELSE "")], i, Len(s))

\* .replace(/\s+/g, ' ')
collapseWhitespace(s, i) ==
    concat([k \in 1..Len(s) |->
               IF ~IsSpace(Char(s, k)) THEN Char(s, k)
               ELSE IF k = i \/ ~IsSpace(Char(s, k - 1)) THEN " "
               ELSE ""],
           i, Len(s))

\* .replace(/([a-z])([A-Z])/g, '$1 $2')
spaceLowerUpper(s) ==
    insertSpacesFrom(s, {k \in 1..Len(s) : /\ k < Len(s)
                                           /\ Char(s, k) \in LowerChars
                                           /\ Char(s, k + 1) \in UpperChars}, 1)

\* .replace(/\b(\d+)([a-zA-Z])/g, '$1 $2'): a run of digits that starts at a word
\* boundary and is followed by a letter
spaceDigitsLetter(s) ==
    insertSpacesFrom(s, {k \in 1..Len(s) :
        /\ k < Len(s)
        /\ IsDigit(Char(s, k))
        /\ IsLetter(Char(s, k + 1))
        /\ \E b \in 1..k : /\ \A j \in b..k : IsDigit(Char(s, j))
                           /\ (b = 1 \/ ~IsWordChar(Char(s, b - 1)))}, 1)

\* .replace(/([a-zA-Z])(\d+)/g, '$1 $2')
spaceLetterDigits(s) ==
    insertSpacesFrom(s, {k \in 1..Len(s) : /\ k < Len(s)
                                           /\ IsLetter(Char(s, k))
                                           /\ IsDigit(Char(s, k + 1))}, 1)

\* .replace(/\s*([.,;:!?])\s*/g, '$1 ')
\* every punctuation character is a match; the white space before and after it is
\* part of the match
spacePunctuation(s, i) ==
    concat([k \in 1..Len(s) |->
               IF Char(s, k) \in PunctuationChars THEN Char(s, k) \o " "
               ELSE IF /\ IsSpace(Char(s, k))
                       /\ \/ LET j == skipSpaces(s, k)
                              IN  j <= Len(s) /\ Char(s, j) \in PunctuationChars
                          \/ \E p \in i..(k - 1) :
                                /\ Char(s, p) \in PunctuationChars
                                /\ \A q \in (p + 1)..k : IsSpace(Char(s, q))
               THEN ""
               ELSE Char(s, k)],
           i, Len(s))

\* .replace(/\s{2,}/g, ' ')
collapseSpaceRuns(s, i) ==
    concat([k \in 1..Len(s) |->
               IF ~IsSpace(Char(s, k)) THEN Char(s, k)
               ELSE IF k > i /\ IsSpace(Char(s, k - 1)) THEN ""
               ELSE IF k < Len(s) /\ IsSpace(Char(s, k + 1)) THEN " "
               ELSE Char(s, k)],
           i, Len(s))

preprocessTextForSearch(text) ==
    trim(collapseSpaceRuns(
            spacePunctuation(
                spaceLetterDigits(spaceDigitsLetter(spaceLowerUpper(collapseWhitespace(text, 1)))),
                1),
            1))

\* the length of a section and of a fallback chunk, and the numbers of them kept
SectionChars == 1000
MinParagraphChars == 100
MaxParagraphs == 10
MaxChunks == 5

\* text.match(/.{1,1000}/g) for a text without line terminators
RECURSIVE chunksOf(_, _)
chunksOf(text, size) ==
    IF Len(text) = 0 THEN <<>>
    ELSE IF Len(text) <= size THEN <<text>>
    ELSE <<SubSeq(text, 1, size)>> \o chunksOf(SubSeq(text, size + 1, Len(text)), size)

\* extractRelevantSections for a text without line breaks, which is what its one caller
\* hands it (preprocessTextForSearch has replaced every run of white space by a space):
\* no section header and no paragraph break is found, so the text is one paragraph, kept
\* when it is longer than 100 characters, and is cut into chunks otherwise
extractRelevantSections(text) ==
    LET paragraphs == SelectSeq(<<text>>, LAMBDA q : Len(trim(q)) > MinParagraphChars)
        firstParagraphs == SubSeq(paragraphs, 1, IF Len(paragraphs) < MaxParagraphs
                                                 THEN Len(paragraphs) ELSE MaxParagraphs)
        sections ==
            [k \in 1..Len(firstParagraphs) |->
                "Section " \o ToString(k) \o ": "
                \o SubSeq(trim(firstParagraphs[k]), 1,
                          IF Len(trim(firstParagraphs[k])) < SectionChars
                          THEN Len(trim(firstParagraphs[k])) ELSE SectionChars)]
        chunks == chunksOf(text, SectionChars)
        firstChunks == SubSeq(chunks, 1, IF Len(chunks) < MaxChunks THEN Len(chunks)
                                         ELSE MaxChunks)
    IN  IF Len(sections) > 0 THEN sections
        ELSE [k \in 1..Len(firstChunks) |->
                "Content Part " \o ToString(k) \o ": " \o trim(firstChunks[k])]

MinTextChars == 10

\* processPDFContent changes the store and, in place, the paper it was handed: the result
\* holds both
processPDFContent(st, sourcePaper) ==
    IF Len(sourcePaper.extractedText) < MinTextChars
    THEN [st |-> st, sourcePaper |-> sourcePaper]
    ELSE LET processedText == preprocessTextForSearch(sourcePaper.extractedText)
             filled == IF Len(sourcePaper.relevantSections) = 0
                       THEN [sourcePaper EXCEPT
                                !.relevantSections = extractRelevantSections(processedText)]
                       ELSE sourcePaper
             enhancedSourcePaper == [filled EXCEPT !.extractedText = processedText]
         IN  [st |-> addPaper(st, enhancedSourcePaper), sourcePaper |-> filled]

\* whether \n[A-Z]+: stands at index k of s
headerAt(s, k) ==
    /\ k <= Len(s)
    /\ Char(s, k) = "\n"
    /\ \E m \in (k + 2)..Len(s) :
          /\ Char(s, m) = ":"
          /\ \A j \in (k + 1)..(m - 1) : Char(s, j) \in UpperChars

NoMatch == [matched |-> FALSE, text |-> ""]

\* response.match(/LABEL:\s*(.+?)(?=\n[A-Z]+:|$)/s): the first occurrence of the label that
\* has a character after it; the white space after the label is skipped (all but its last
\* character when nothing else follows), and the capture runs to the first \n[A-Z]+: or to
\* the end
captureAfterLabel(response, label) ==
    LET starts == {i \in 1..Len(response) :
                      /\ startsWithAt(response, label, i)
                      /\ i + Len(label) <= Len(response)}
    IN  IF starts = {} THEN NoMatch
        ELSE LET i == CHOOSE x \in starts : \A y \in starts : x <= y
                 first == skipSpaces(response, i + Len(label))
                 from == IF first > Len(response) THEN Len(response) ELSE first
                 ends == {e \in from..Len(response) :
                             e = Len(response) \/ headerAt(response, e + 1)}
                 to == CHOOSE x \in ends : \A y \in ends : x <= y
             IN  [matched |-> TRUE, text |-> SubSeq(response, from, to)]

RECURSIVE skipDigits(_, _)
skipDigits(s, i) ==
    IF i <= Len(s) /\ IsDigit(Char(s, i)) THEN skipDigits(s, i + 1) ELSE i

DigitValue(c) ==
    CASE c = "0" -> 0 [] c = "1" -> 1 [] c = "2" -> 2 [] c = "3" -> 3 [] c = "4" -> 4
      [] c = "5" -> 5 [] c = "6" -> 6 [] c = "7" -> 7 [] c = "8" -> 8 [] c = "9" -> 9

\* parseInt of a string of digits
RECURSIVE parseInt(_)
parseInt(digits) ==
    IF Len(digits) = 0 THEN 0
    ELSE 10 * parseInt(SubSeq(digits, 1, Len(digits) - 1)) + DigitValue(Char(digits, Len(digits)))

\* response.match(/CONFIDENCE:\s*(\d+)%?/): the first "CONFIDENCE:" that white space and
\* then a digit follow
confidenceMatch(response) ==
    LET label == "CONFIDENCE:"
        starts == {i \in 1..Len(response) :
                      /\ startsWithAt(response, label, i)
                      /\ skipSpaces(response, i + Len(label)) <= Len(response)
                      /\ IsDigit(Char(response, skipSpaces(response, i + Len(label))))}
    IN  IF starts = {} THEN NoMatch
        ELSE LET i == CHOOSE x \in starts : \A y \in starts : x <= y
                 from == skipSpaces(response, i + Len(label))
             IN  [matched |-> TRUE,
                  text |-> SubSeq(response, from, skipDigits(response, from) - 1)]

\* hasConfidence is false where the source has confidence: undefined
parseHypothesisResponse(response) ==
    LET hypothesisMatch == captureAfterLabel(response, "HYPOTHESIS:")
        limitationsMatch == captureAfterLabel(response, "LIMITATIONS:")
        sourcesMatch == captureAfterLabel(response, "SOURCE PAPERS:")
    IN  [hypothesis |-> IF hypothesisMatch.matched /\ trim(hypothesisMatch.text) # ""
                        THEN trim(hypothesisMatch.text) ELSE response,
         hasConfidence |-> confidenceMatch(response).matched,
         confidence |-> parseInt(confidenceMatch(response).text),
         hasLimitations |-> limitationsMatch.matched,
         limitations |-> trim(limitationsMatch.text),
         hasSources |-> sourcesMatch.matched,
         sources |-> IF sourcesMatch.matched THEN trimAll(split(sourcesMatch.text, ","))
                     ELSE <<>>]

\* OpenAIService.isConfigured
isConfigured(openaiApiKey) ==
    openaiApiKey # "" /\ startsWithAt(openaiApiKey, "sk-", 1)

\* config.maxSourcePapers, and the confidence taken when the response states none
MaxSourcePapers == 5
DefaultConfidence == 85

Take(xs, n) == SubSeq(xs, 1, IF Len(xs) < n THEN Len(xs) ELSE n)

NoSourceValidation ==
    [isValid |-> FALSE, confidence |-> Num(0), supportingEvidence |-> <<>>]

\* a result of generateRAGHypothesis; its warnings, which only feed toasts, are left out
Failure(error, sourceValidation) ==
    [success |-> FALSE, error |-> error, hypothesisId |-> "",
     sourceValidation |-> sourceValidation]
Success(hypothesisId, sourceValidation) ==
    [success |-> TRUE, error |-> "", hypothesisId |-> hypothesisId,
     sourceValidation |-> sourceValidation]

\* selectedPaperIds: undefined (given is false) or a list of ids
selectedPapers(st, selection) ==
    IF selection.given
    THEN LET ids == SelectSeq(selection.ids, LAMBDA id : PapersHas(st.papers, id))
         IN  [i \in 1..Len(ids) |-> getPaper(st, ids[i])]
    ELSE getAllPapers(st)

\* generateRAGHypothesis up to its await: it returns a failure, or it invokes
\* createChatCompletion and awaits it with the source papers it has chosen.  The prompt
\* only feeds the completion, whose answer is any of the responses of the model.
generateRAGHypothesisBegin(st, key, selection) ==
    LET sourcePapers == selectedPapers(st, selection)
    IN  IF Len(sourcePapers) = 0
        THEN [awaiting |-> FALSE, sourcePapers |-> <<>>,
              result |-> Failure("No PDF sources available. Please upload and process research papers first.",
                                 NoSourceValidation)]
        ELSE IF ~isConfigured(key)
        THEN [awaiting |-> FALSE, sourcePapers |-> <<>>,
              result |-> Failure("OpenAI API not configured. Cannot generate hypotheses.",
                                 NoSourceValidation)]
        ELSE [awaiting |-> TRUE, sourcePapers |-> Take(sourcePapers, MaxSourcePapers),
              result |-> Failure("", NoSourceValidation)]

\* the hypothesis generateRAGHypothesis builds from a parsed response and its validation
ragHypothesis(parsedResponse, sourceValidation, sourcePapers, now) ==
    [id |-> "hyp_" \o ToString(now),
     title |-> "PDF-Based Hypothesis",
     description |-> parsedResponse.hypothesis,
     status |-> "draft",
     confidence |->
        MathMin(sourceValidation.confidence,
                Num(IF parsedResponse.hasConfidence /\ parsedResponse.confidence # 0
                    THEN parsedResponse.confidence ELSE DefaultConfidence)),
     sourcePapers |-> idsOf(sourcePapers),
     extractedEvidence |->
        [i \in 1..Len(sourceValidation.supportingEvidence) |->
            [paperId |-> sourceValidation.supportingEvidence[i].paperId,
             evidenceText |-> sourceValidation.supportingEvidence[i].evidenceText,
             section |-> "Extracted Content"]]]

\* a faulty variant, for comparison: a hypothesis that validation rejects is stored before the failure is returned
generateRAGHypothesisStoresRejected(st, sourcePapers, completion, now) ==
    IF completion.threw
    THEN [st |-> st, result |-> Failure(completion.text, NoSourceValidation)]
    ELSE LET parsedResponse == parseHypothesisResponse(completion.text)
             sourceValidation ==
                validateHypothesisAgainstSources(parsedResponse.hypothesis, sourcePapers)
             saved == addHypothesis(st, ragHypothesis(parsedResponse, sourceValidation,
                                                      sourcePapers, now))
         IN  IF saved.threw
             THEN [st |-> saved.st, result |-> Failure(saved.error, NoSourceValidation)]
             ELSE IF ~sourceValidation.isValid
             THEN [st |-> saved.st,
                   result |-> Failure("Generated hypothesis not sufficiently supported by source papers.",
                                      sourceValidation)]
             ELSE [st |-> saved.st,
                   result |-> Success("hyp_" \o ToString(now), sourceValidation)]

\* generateRAGHypothesis from the end of its await: createChatCompletion has thrown an
\* Error with the message completion.text, or has returned the response completion.text
generateRAGHypothesisResume(st, sourcePapers, completion, now) ==
    IF completion.threw
    THEN [st |-> st, result |-> Failure(completion.text, NoSourceValidation)]
    ELSE LET parsedResponse == parseHypothesisResponse(completion.text)
             sourceValidation ==
                validateHypothesisAgainstSources(parsedResponse.hypothesis, sourcePapers)
             saved == addHypothesis(st, ragHypothesis(parsedResponse, sourceValidation,
                                                      sourcePapers, now))
         IN  IF ~sourceValidation.isValid
             THEN [st |-> st,
                   result |-> Failure("Generated hypothesis not sufficiently supported by source papers.",
                                      sourceValidation)]
             ELSE IF saved.threw
             THEN [st |-> saved.st, result |-> Failure(saved.error, NoSourceValidation)]
             ELSE [st |-> saved.st,
                   result |-> Success("hyp_" \o ToString(now), sourceValidation)]

clearAllData(st) == clearAll(st)

----------------------------------------------------------------------------
(* The store under any sequence of calls of its public methods.            *)

PaperIds == {"p1", "p2"}
HypothesisIds == {"h1"}

MkPaper(id, title, text, sections) ==
    [id |-> id,
     title |-> title,
     authors |-> <<"Google Drive PDF">>,
     url |-> "https://drive.google.com/file/d/" \o id \o "/view",
     extractedText |-> text,
     relevantSections |-> sections,
     citationStyle |-> title \o " (Google Drive PDF)"]

GeneText == "Gene expression drives tumor growth in mice."
CellText == "Cell cultures were kept at low temperature."

\* the papers handed to addPaper
PaperInputs ==
    {MkPaper("p1", "Gene study", GeneText, <<GeneText>>),
     MkPaper("p2", "Cell study", CellText, <<CellText>>)}

\* the extractedEvidence lists handed to addHypothesis
EvidenceInputs ==
    {<<>>,
     <<[paperId |-> "p1", evidenceText |-> GeneText, section |-> "Extracted Content"]>>,
     <<[paperId |-> "p2", evidenceText |-> CellText, section |-> "Extracted Content"]>>}

\* the hypotheses handed to addHypothesis (Omit<HypothesisWithSources, 'knowledgeGraphNodeId'>)
HypothesisInputs ==
    {[id |-> id,
      title |-> "Hypothesis " \o id,
      description |-> "gene expression drives growth",
      status |-> "draft",
      confidence |-> Num(50),
      sourcePapers |-> sourcePapers,
      extractedEvidence |-> evidence] :
        id \in HypothesisIds,
        sourcePapers \in SeqsUpTo(PaperIds, MaxSources),
        evidence \in EvidenceInputs}

StatusInputs == {"validated", "rejected"}

TheStore ==
    [papers |-> papers, hypotheses |-> hypotheses, knowledgeGraph |-> knowledgeGraph,
     connections |-> connections]

SetStore(st) ==
    /\ papers' = st.papers
    /\ hypotheses' = st.hypotheses
    /\ knowledgeGraph' = st.knowledgeGraph
    /\ connections' = st.connections

\* the model's bound on adjacency lists
WithinBounds(st) ==
    \A n \in DOMAIN st.knowledgeGraph : Len(st.knowledgeGraph[n].connections) <= MaxConn

NoResult ==
    [isValid |-> FALSE, confidence |-> Num(0), supportingEvidence |-> <<>>, warnings |-> <<>>]
NoValidation ==
    [hypothesisText |-> "", sourcePapers |-> <<>>, called |-> FALSE, result |-> NoResult]

RagIdle == [pc |-> "idle", sourcePapers |-> <<>>]
NotValidated == [ok |-> FALSE, text |-> "", sourcePapers |-> <<>>]
DriveIdle == [pc |-> "idle", sourcePaper |-> MkPaper("", "", "", <<>>)]

\* the application before any paper is ingested, with the given API key
\* no text function has been called
NoCall == [op |-> "none", called |-> FALSE]

AppInit(key) ==
    /\ apiKey = key
    /\ rag = RagIdle
    /\ drive = DriveIdle
    /\ viewSourcePapers = <<>>
    /\ globalCount = 0
    /\ globalSourcePapers = <<>>
    /\ validatedOk = NotValidated
    /\ call = NoCall

Init ==
    /\ papers = <<>>
    /\ hypotheses = EmptyMap
    /\ knowledgeGraph = EmptyMap
    /\ connections = EmptyMap
    /\ last = [op |-> "init", id |-> "", threw |-> FALSE]
    /\ validation = NoValidation
    /\ AppInit("")

AddPaper ==
    \E paper \in PaperInputs :
        /\ SetStore(addPaper(TheStore, paper))
        /\ last' = [op |-> "addPaper", id |-> paper.id, threw |-> FALSE]
        /\ UNCHANGED nonStoreVars

AddHypothesis ==
    \E hypothesis \in HypothesisInputs :
        LET r == addHypothesis(TheStore, hypothesis)
        IN  /\ WithinBounds(r.st)
            /\ SetStore(r.st)
            /\ last' = [op |-> "addHypothesis", id |-> hypothesis.id, threw |-> r.threw]
            /\ UNCHANGED nonStoreVars

UpdateHypothesisStatus ==
    \E id \in HypothesisIds, newStatus \in StatusInputs :
        /\ SetStore(updateHypothesisStatus(TheStore, id, newStatus))
        /\ last' = [op |-> "updateHypothesisStatus", id |-> id, threw |-> FALSE]
        /\ UNCHANGED nonStoreVars

ClearAll ==
    /\ SetStore(clearAll(TheStore))
    /\ last' = [op |-> "clearAll", id |-> "", threw |-> FALSE]
    /\ UNCHANGED nonStoreVars

Next == AddPaper \/ AddHypothesis \/ UpdateHypothesisStatus \/ ClearAll

Spec == Init /\ [][Next]_vars

----------------------------------------------------------------------------
(* Claims about the store.                                                 *)

NodeIds == DOMAIN knowledgeGraph
StoredPaperIds == PaperIdsOf(papers)

\* C1: in every reachable state of the store, every connection's sourceId and targetId and
\* every id in a node's connections list is the id of a graph node, and every paperId a
\* stored hypothesis (sourcePapers, extractedEvidence) or a connection's evidence refers to
\* is the id of a stored paper.
C1_ReferentialIntegrity ==
    /\ \A c \in DOMAIN connections :
          /\ connections[c].sourceId \in NodeIds
          /\ connections[c].targetId \in NodeIds
          /\ \A i \in 1..Len(connections[c].evidence) :
                connections[c].evidence[i].paperId \in StoredPaperIds
    /\ \A n \in NodeIds : Range(knowledgeGraph[n].connections) \subseteq NodeIds
    /\ \A h \in DOMAIN hypotheses :
          /\ Range(hypotheses[h].sourcePapers) \subseteq StoredPaperIds
          /\ \A i \in 1..Len(hypotheses[h].extractedEvidence) :
                hypotheses[h].extractedEvidence[i].paperId \in StoredPaperIds

\* C2: a call of addHypothesis that throws (a source paper is missing from the store)
\* leaves papers, hypotheses, graph nodes, connections and adjacency lists as they were.
C2_FailedAddHypothesisChangesNothing ==
    [][(last'.op = "addHypothesis" /\ last'.threw) => UNCHANGED storeVars]_vars

\* C2 also says that the call fails whenever a source paper is missing.
C2_MissingPaperThrows ==
    \A hypothesis \in HypothesisInputs :
        (\E i \in 1..Len(hypothesis.sourcePapers) :
            hypothesis.sourcePapers[i] \notin StoredPaperIds)
        => /\ addHypothesis(TheStore, hypothesis).threw
           /\ addHypothesis(TheStore, hypothesis).error # ""

C2_Theorem == C2_FailedAddHypothesisChangesNothing /\ []C2_MissingPaperThrows

\* a failed addHypothesis on a store that holds papers, a hypothesis, nodes and connections
C2_Witness ==
    /\ last.op = "addHypothesis" /\ last.threw
    /\ Len(papers) > 0 /\ DOMAIN hypotheses # {} /\ DOMAIN connections # {}

\* C3: every stored hypothesis has a knowledgeGraphNodeId that is the id of a graph node of
\* type hypothesis, and every node of type hypothesis belongs to a stored hypothesis: the
\* two are never seen one without the other.
C3_HypothesisHasNode ==
    /\ \A h \in DOMAIN hypotheses :
          /\ hypotheses[h].knowledgeGraphNodeId # Undefined
          /\ hypotheses[h].knowledgeGraphNodeId \in NodeIds
          /\ knowledgeGraph[hypotheses[h].knowledgeGraphNodeId].type = "hypothesis"
    /\ \A n \in NodeIds :
          knowledgeGraph[n].type = "hypothesis"
          => \E h \in DOMAIN hypotheses : hypotheses[h].knowledgeGraphNodeId = n

C3_Witness ==
    /\ last.op = "addHypothesis" /\ ~last.threw
    /\ \E h \in DOMAIN hypotheses : Len(hypotheses[h].sourcePapers) > 0

\* C4: a graph node that exists in a state exists in every later state, and a node's
\* connections never lose an id (addPaper for a stored id and clearAll included).
C4_NodesKeptConnectionsGrow ==
    [][\A n \in NodeIds :
          /\ n \in DOMAIN knowledgeGraph'
          /\ Range(knowledgeGraph[n].connections) \subseteq Range(knowledgeGraph'[n].connections)
      ]_vars

\* C5: every stored hypothesis has a non-empty sourcePapers list, all of them stored papers
\* when it was created; addHypothesis stores no hypothesis with an empty sourcePapers list.
C5_SourcePapersNonEmpty ==
    /\ \A h \in DOMAIN hypotheses : Len(hypotheses[h].sourcePapers) > 0
    /\ (last.op = "addHypothesis" /\ ~last.threw)
       => Range(hypotheses[last.id].sourcePapers) \subseteq StoredPaperIds

----------------------------------------------------------------------------
(* The application: Drive ingestion, the Hypotheses view, generation.      *)

MinContentChars == 20
MinContentWords == 5
MinSectionChars == 50
MaxDriveSections == 5

wordCount(content) == Len(SelectSeq(splitSpaces(content), LAMBDA w : Len(w) > 0))

hasMinimalContent(content) ==
    /\ Len(content) > MinContentChars
    /\ \E i \in 1..Len(content) : IsLetter(Char(content, i))
    /\ wordCount(content) > MinContentWords

\* the source paper processPDFsFromDrive builds from a downloaded PDF
driveSourcePaper(pdf, data) ==
    [id |-> pdf.id,
     title |-> removeFirst(pdf.name, ".pdf"),
     authors |-> <<"Google Drive PDF">>,
     url |-> "https://drive.google.com/file/d/" \o pdf.id \o "/view",
     extractedText |-> data.content,
     relevantSections |->
        IF Len(data.sections) > 0 THEN data.sections
        ELSE Take(SelectSeq(split(data.content, "\n\n"),
                            LAMBDA section : Len(section) > MinSectionChars),
                  MaxDriveSections),
     citationStyle |-> removeFirst(pdf.name, ".pdf") \o " (Google Drive PDF)"]

\* useGlobalData.addSourcePaper: the store, and the global sourcePapers list with its
\* length, after it
addSourcePaper(st, count, sourcePapers, paper) ==
    [st |-> addPaper(st, paper), count |-> count + 1,
     sourcePapers |-> Append(sourcePapers, paper.id)]

ManualConfidence == 50
ManualSources == 3

\* the hypothesis handleCreateHypothesis builds
manualHypothesis(title, description, sourcePapers, now) ==
    [id |-> ToString(now),
     title |-> title,
     description |-> description,
     status |-> "draft",
     confidence |-> Num(ManualConfidence),
     sourcePapers |-> Take(sourcePapers, ManualSources),
     extractedEvidence |-> <<>>]

BrcaText == "BRCA1 gene drives tumor in mice."
ColdText == "Cells were kept cold over night"

\* the PDFs of the Drive folder and what their download answers when it succeeds
DrivePdfs ==
    {[id |-> "d1", name |-> "gene.pdf",
      data |-> [success |-> TRUE, content |-> BrcaText, sections |-> <<BrcaText>>,
                error |-> ""]],
     [id |-> "d2", name |-> "cells.pdf",
      data |-> [success |-> TRUE, content |-> ColdText, sections |-> <<>>, error |-> ""]]}

\* what a download answers: the PDF's text, a text of no use, or a failure
DownloadInputs(pdf) ==
    {pdf.data,
     [success |-> TRUE, content |-> "scanned image", sections |-> <<>>, error |-> ""],
     [success |-> FALSE, content |-> "", sections |-> <<>>, error |-> "File not found"]}

ApiKeys == {"", "sk-test", "pk-test"}

SelectionInputs ==
    {[given |-> FALSE, ids |-> <<>>],
     [given |-> TRUE, ids |-> <<"zz", "d1">>]}

\* what createChatCompletion ends with: a response, or an Error with a message (the
\* message of the API's error, 'OpenAI API request failed' without one, or fetch's own)
CompletionInputs ==
    {[threw |-> FALSE,
      text |-> "HYPOTHESIS: gene drives tumor\nCONFIDENCE: 80%\nLIMITATIONS: few mice"],
     [threw |-> FALSE, text |-> "HYPOTHESIS: cold cells"],
     [threw |-> FALSE, text |-> "INSUFFICIENT DATA"],
     [threw |-> TRUE, text |-> "OpenAI API request failed"]}

TitleInputs == {"Manual hypothesis", " "}
DescriptionInputs == {"Tumors grow in the cold"}

\* what Date.now() answers; the model reads one value, so that a second hypothesis made
\* by the same handler takes the id of the first, as it does within one millisecond
Now == {1}

\* a handler other than generateRAGHypothesis has run
Handled == last' = [op |-> "handler", id |-> "", threw |-> FALSE]

\* generateRAGHypothesis has returned, having invoked createChatCompletion so many times
Generated(result, completions) ==
    last' = [op |-> "generateRAGHypothesis", id |-> result.hypothesisId, threw |-> FALSE,
             success |-> result.success, error |-> result.error,
             completions |-> completions]

\* every step of the application leaves these alone
AppUnchanged ==
    UNCHANGED <<validation, apiKey, call>>

InitApp ==
    /\ papers = <<>>
    /\ hypotheses = EmptyMap
    /\ knowledgeGraph = EmptyMap
    /\ connections = EmptyMap
    /\ last = [op |-> "init", id |-> "", threw |-> FALSE]
    /\ validation = NoValidation
    /\ \E key \in ApiKeys : AppInit(key)

\* processPDFsFromDrive, one attempt for one PDF up to the await of processPDFContent; an
\* attempt that throws (nothing of use was downloaded) changes nothing
DriveProcessPDF ==
    \E pdf \in DrivePdfs : \E data \in DownloadInputs(pdf) :
        /\ drive.pc = "idle"
        /\ globalCount < MaxGlobal
        /\ IF data.success /\ Len(data.content) > 0 /\ hasMinimalContent(data.content)
           THEN LET r == processPDFContent(TheStore, driveSourcePaper(pdf, data))
                IN  /\ SetStore(r.st)
                    /\ drive' = [pc |-> "processed", sourcePaper |-> r.sourcePaper]
           ELSE UNCHANGED <<storeVars, drive>>
        /\ validatedOk' = NotValidated
        /\ Handled
        /\ UNCHANGED <<rag, viewSourcePapers, globalCount, globalSourcePapers>>
        /\ AppUnchanged

\* processPDFsFromDrive after processPDFContent: addSourcePaper with the paper it built
DriveAddSourcePaper ==
    /\ drive.pc = "processed"
    /\ LET g == addSourcePaper(TheStore, globalCount, globalSourcePapers,
                                drive.sourcePaper)
       IN  /\ SetStore(g.st)
           /\ globalCount' = g.count
           /\ globalSourcePapers' = g.sourcePapers
    /\ drive' = DriveIdle
    /\ validatedOk' = NotValidated
    /\ Handled
    /\ UNCHANGED <<rag, viewSourcePapers>>
    /\ AppUnchanged

\* the Hypotheses view takes its sourcePapers from the store: its initial state, and the
\* effect that runs when the global list has changed
SyncSourcePapers ==
    /\ drive.pc = "idle"
    /\ viewSourcePapers' = idsOf(getAllPapers(TheStore))
    /\ validatedOk' = NotValidated
    /\ Handled
    /\ UNCHANGED <<storeVars, rag, drive, globalCount, globalSourcePapers>>
    /\ AppUnchanged

\* a blank title or description, or a view without source papers, ends the handler with
\* a toast; so does a throwing addHypothesis
HandleCreateHypothesis ==
    \E title \in TitleInputs, description \in DescriptionInputs, now \in Now :
        /\ drive.pc = "idle"
        /\ IF trim(title) = "" \/ trim(description) = "" \/ Len(viewSourcePapers) = 0
           THEN UNCHANGED storeVars
           ELSE LET r == addHypothesis(TheStore,
                                       manualHypothesis(title, description,
                                                        viewSourcePapers, now))
                IN  /\ WithinBounds(r.st)
                    /\ SetStore(r.st)
        /\ validatedOk' = NotValidated
        /\ Handled
        /\ UNCHANGED <<rag, drive, viewSourcePapers, globalCount, globalSourcePapers>>
        /\ AppUnchanged

\* a call of generateRAGHypothesis, up to its return or its await
GenerateRAGHypothesis ==
    \E selection \in SelectionInputs :
        LET b == generateRAGHypothesisBegin(TheStore, apiKey, selection)
        IN  /\ drive.pc = "idle"
            /\ rag.pc = "idle"
            /\ IF b.awaiting
               THEN /\ rag' = [pc |-> "awaiting", sourcePapers |-> b.sourcePapers]
                    /\ Handled
               ELSE /\ rag' = RagIdle
                    /\ Generated(b.result, 0)
            /\ validatedOk' = NotValidated
            /\ UNCHANGED <<storeVars, drive, viewSourcePapers, globalCount,
                           globalSourcePapers>>
            /\ AppUnchanged

\* createChatCompletion ends with one of the completions and generateRAGHypothesis runs
\* to its return
CompletionReturnsOneOf(completions) ==
    \E completion \in completions, now \in Now :
        LET r == generateRAGHypothesisResume(TheStore, rag.sourcePapers, completion, now)
            text == parseHypothesisResponse(completion.text).hypothesis
        IN  /\ drive.pc = "idle"
            /\ rag.pc = "awaiting"
            /\ WithinBounds(r.st)
            /\ SetStore(r.st)
            /\ rag' = RagIdle
            /\ Generated(r.result, 1)
            /\ validatedOk' =
                  IF ~completion.threw
                     /\ validateHypothesisAgainstSources(text, rag.sourcePapers).isValid
                  THEN [ok |-> TRUE, text |-> text,
                        sourcePapers |-> idsOf(rag.sourcePapers)]
                  ELSE NotValidated
            /\ UNCHANGED <<drive, viewSourcePapers, globalCount, globalSourcePapers>>
            /\ AppUnchanged

CompletionReturns ==
    /\ rag.pc = "awaiting"
    /\ CompletionReturnsOneOf(CompletionInputs)

\* handleDisconnect clears the store through ragService.clearAllData; the global list
\* and the view keep what they hold
HandleDisconnect ==
    /\ drive.pc = "idle"
    /\ SetStore(clearAllData(TheStore))
    /\ validatedOk' = NotValidated
    /\ Handled
    /\ UNCHANGED <<rag, drive, viewSourcePapers, globalCount, globalSourcePapers>>
    /\ AppUnchanged

NextApp ==
    \/ DriveProcessPDF
    \/ DriveAddSourcePaper
    \/ SyncSourcePapers
    \/ HandleCreateHypothesis
    \/ GenerateRAGHypothesis
    \/ CompletionReturns
    \/ HandleDisconnect

SpecApp == InitApp /\ [][NextApp]_vars

\* C6: a hypothesis enters the store only in a step in which
\* validateHypothesisAgainstSources has accepted its text against its source papers, on
\* the path of AI generation and on the path of manual creation in the Hypotheses view.
C6_StoredOnlyAfterValidation ==
    [][\A h \in DOMAIN hypotheses' :
          (h \notin DOMAIN hypotheses \/ hypotheses'[h] # hypotheses[h])
          => validatedOk' = [ok |-> TRUE,
                             text |-> hypotheses'[h].description,
                             sourcePapers |-> hypotheses'[h].sourcePapers]
      ]_vars

\* C7: a paper that is in the store keeps its extractedText, title, authors and url for as
\* long as it is stored; in the Drive flow the record stored by processPDFContent is the
\* one still stored after addSourcePaper.
C7_StoredPaperKeepsItsText ==
    [][\A i \in 1..Len(papers) :
          PapersHas(papers', papers[i].id)
          => LET after == papers'[PaperIndex(papers', papers[i].id)]
             IN  /\ after.extractedText = papers[i].extractedText
                 /\ after.title = papers[i].title
                 /\ after.authors = papers[i].authors
                 /\ after.url = papers[i].url
      ]_vars

\* C8: a call of generateRAGHypothesis that returns success = false carries a non-empty
\* error and leaves papers, hypotheses, graph nodes and connections as they were, having
\* invoked the completion at most once (nothing is retried).
C8_FailureHasReasonAndKeepsStore ==
    [][(last'.op = "generateRAGHypothesis" /\ ~last'.success)
       => /\ last'.error # ""
          /\ UNCHANGED storeVars
          /\ last'.completions <= 1
      ]_vars

\* C8 also says: when the backend is not configured no call awaits the completion, and
\* every call has failed without invoking it.
C8_NotConfiguredNoCompletion ==
    ~isConfigured(apiKey)
    => /\ rag.pc = "idle"
       /\ last.op = "generateRAGHypothesis"
          => /\ ~last.success
             /\ last.completions = 0
             /\ last.error # ""

C8_Theorem == C8_FailureHasReasonAndKeepsStore /\ []C8_NotConfiguredNoCompletion

\* a call that failed after its completion had returned, on a store that holds papers and
\* a hypothesis
C8_Witness ==
    /\ last.op = "generateRAGHypothesis"
    /\ ~last.success
    /\ last.completions = 1
    /\ Len(papers) > 0
    /\ DOMAIN hypotheses # {}

----------------------------------------------------------------------------
(* validateHypothesisAgainstSources as a function of its arguments.        *)

ScenarioText == "gene expression drives phenotype"

\* contains the phrase "gene expression", and a section that contains "gene"
PhrasePaper ==
    MkPaper("v1", "Liver study", "Altered gene expression was measured in liver tissue.",
            <<"Altered gene expression was measured in liver tissue.">>)
\* contains the phrase, in no section
PhraseNoSectionPaper ==
    MkPaper("v2", "Kidney study", "Kidney gene expression data are reported.",
            <<"Samples were taken weekly.">>)
\* matches one word of the scenario text
PhenotypePaper ==
    MkPaper("v3", "Trait study", "The Phenotype changed over time.",
            <<"The Phenotype changed over time.">>)
\* matches every word of the scenario text
FullPaper ==
    MkPaper("v4", "Full study", "Gene expression drives phenotype.",
            <<"Gene expression drives phenotype.">>)
\* shares no word longer than 3 characters with the scenario text
UnrelatedPaper ==
    MkPaper("v5", "Cat study", "The cat sat on the mat.", <<"The cat sat on the mat.">>)

\* matches two words of the scenario text; its one section holds the second of them
SplitPaper ==
    MkPaper("v6", "Split study",
            "Gene counts rose. The phenotype of the treated mice was stable.",
            <<"The phenotype of the treated mice was stable.">>)

ValidatedPapers ==
    {PhrasePaper, PhraseNoSectionPaper, PhenotypePaper, FullPaper, UnrelatedPaper, SplitPaper}
ValidatedTexts == {ScenarioText, "Gene Expression", "", "the cat sat"}

ValidateInit ==
    /\ papers = <<>>
    /\ hypotheses = EmptyMap
    /\ knowledgeGraph = EmptyMap
    /\ connections = EmptyMap
    /\ last = [op |-> "init", id |-> "", threw |-> FALSE]
    /\ validation \in
          {[hypothesisText |-> text, sourcePapers |-> sourcePapers, called |-> FALSE,
            result |-> NoResult] :
              text \in ValidatedTexts,
              sourcePapers \in SeqsUpTo(ValidatedPapers, MaxValidated)}
    /\ AppInit("")

Validate ==
    /\ ~validation.called
    /\ validation' =
          [validation EXCEPT
              !.called = TRUE,
              !.result = validateHypothesisAgainstSources(validation.hypothesisText,
                                                          validation.sourcePapers)]
    /\ last' = [op |-> "validateHypothesisAgainstSources", id |-> "", threw |-> FALSE]
    /\ UNCHANGED <<storeVars, appVars>>

ValidateNext == Validate

SpecValidate == ValidateInit /\ [][ValidateNext]_vars

----------------------------------------------------------------------------
(* Claims about validateHypothesisAgainstSources.                          *)

\* the hypothesis words longer than 3 characters that occur in the paper's text, counted
\* with their repetitions
MatchedWords(hypothesisText, paper) ==
    LET words == splitSpaces(toLowerCase(hypothesisText))
    IN  Cardinality({i \in 1..Len(words) :
                        /\ Len(words[i]) > 3
                        /\ includes(toLowerCase(paper.extractedText), words[i])})

RECURSIVE TotalMatched(_, _, _)
TotalMatched(hypothesisText, sourcePapers, i) ==
    IF i > Len(sourcePapers) THEN 0
    ELSE MatchedWords(hypothesisText, sourcePapers[i])
         + TotalMatched(hypothesisText, sourcePapers, i + 1)

\* the sum of the per-paper relevances divided by the number of papers
AvgRelevance(hypothesisText, sourcePapers) ==
    Rat(TotalMatched(hypothesisText, sourcePapers, 1),
        Len(splitSpaces(toLowerCase(hypothesisText))) * Len(sourcePapers))

ConfidenceAndValidity(v) ==
    LET avg == AvgRelevance(v.hypothesisText, v.sourcePapers)
    IN  /\ v.result.confidence = MathMin(RatMul(avg, Num(100)), Num(95))
        /\ ~IsNaN(v.result.confidence)
        /\ RatLe(Num(0), v.result.confidence)
        /\ RatLe(v.result.confidence, Num(95))
        /\ v.result.isValid <=> RatLt(Rat(3, 10), avg)

\* C9 as stated: for every hypothesis text and every list of source papers, confidence is
\* min(avgRelevance * 100, 95), a number between 0 and 95, and isValid is avgRelevance > 0.3.
C9_EveryList == validation.called => ConfidenceAndValidity(validation)

\* The same holds for every non-empty list of source papers.
C9_NonEmptyList ==
    (validation.called /\ Len(validation.sourcePapers) > 0) => ConfidenceAndValidity(validation)

HasPhrase(paper) == includes(paper.extractedText, "gene expression")
HasEvidenceFor(result, paper) ==
    \E i \in 1..Len(result.supportingEvidence) : result.supportingEvidence[i].paperId = paper.id
NamedInWarnings(result, paper) ==
    \E i \in 1..Len(result.warnings) : includes(result.warnings[i], paper.title)
ScenarioCall ==
    /\ validation.called
    /\ validation.hypothesisText = ScenarioText
    /\ \E i \in 1..Len(validation.sourcePapers) : HasPhrase(validation.sourcePapers[i])

\* every paper of the list that shares no word longer than 3 characters with the
\* hypothesis is named in the warnings
UnrelatedPapersWarned ==
    \A i \in 1..Len(validation.sourcePapers) :
        MatchedWords(validation.hypothesisText, validation.sourcePapers[i]) = 0
        => NamedInWarnings(validation.result, validation.sourcePapers[i])

----------------------------------------------------------------------------
(* RAGService.calculateAdvancedRelevance as a function of its arguments.   *)

\* a / b; the code divides by positive numbers only
RatDiv(a, b) ==
    IF IsNaN(a) \/ IsNaN(b) \/ b.n = 0 THEN NaN ELSE Rat(a.n * b.d, a.d * b.n)

\* filter(w => w.length > 2)
MinQueryWordChars == 2
\* score += exactWordMatches * 2
ExactWeight == 2
\* score += 3
PhraseBonus == 3
\* 1000 / textLength
LongTextWords == 1000

\* number of elements of xs that satisfy the filter: equal to w, or containing w and
\* different from it
countExact(xs, w) == Cardinality({i \in 1..Len(xs) : xs[i] = w})
countPartial(xs, w) == Cardinality({i \in 1..Len(xs) : includes(xs[i], w) /\ xs[i] # w})

\* a faulty variant, for comparison: no bonus for the exact phrase
queryWordScoreNoBonus(query, text, textWords, queryWord) ==
    RatAdd(Num(countExact(textWords, queryWord) * ExactWeight),
           Rat(countPartial(textWords, queryWord), 2))

\* one round of queryWords.forEach: what it adds to score
queryWordScore(query, text, textWords, queryWord) ==
    RatAdd(RatAdd(Num(countExact(textWords, queryWord) * ExactWeight),
                  Rat(countPartial(textWords, queryWord), 2)),
           IF includes(toLowerCase(text), toLowerCase(query)) THEN Num(PhraseBonus)
           ELSE Num(0))

RECURSIVE sumQueryWords(_, _, _, _, _)
sumQueryWords(query, text, textWords, queryWords, i) ==
    IF i > Len(queryWords) THEN Num(0)
    ELSE RatAdd(queryWordScore(query, text, textWords, queryWords[i]),
                sumQueryWords(query, text, textWords, queryWords, i + 1))

relevanceQueryWords(query) ==
    SelectSeq(splitSpaces(toLowerCase(query)), LAMBDA w : Len(w) > MinQueryWordChars)

\* normalizedScore * lengthPenalty
penalizedScore(query, text) ==
    LET queryWords == relevanceQueryWords(query)
        textWords == splitSpaces(toLowerCase(text))
        textLength == Len(textWords)
        score == sumQueryWords(query, text, textWords, queryWords, 1)
        normalizedScore ==
            RatDiv(score, RatAdd(Rat(textLength, 100), Num(Len(queryWords))))
        lengthPenalty == MathMin(Num(1), Rat(LongTextWords, textLength))
    IN  RatMul(normalizedScore, lengthPenalty)

\* a faulty variant, for comparison: the score is not capped at 1
relevanceUncapped(query, text) ==
    IF Len(relevanceQueryWords(query)) = 0 \/ Len(splitSpaces(toLowerCase(text))) = 0
    THEN Num(0)
    ELSE penalizedScore(query, text)

calculateAdvancedRelevance(query, text) ==
    IF Len(relevanceQueryWords(query)) = 0 \/ Len(splitSpaces(toLowerCase(text))) = 0
    THEN Num(0)
    ELSE MathMin(Num(1), penalizedScore(query, text))

\* longest text that is scored, in words
MaxTextWords == 5

\* the words the scored texts are made of: the first word of the scenario's query, and
\* two words that contain a word of the query without being one
TextWords == {"BRCA1", "xBRCA1", "mutations"}

ScenarioQuery == "BRCA1 mutation"

RelevanceQueries == {ScenarioQuery, "brca1", "a of", ""}

RelevanceTexts ==
    {join(ws, " ") : ws \in SeqsUpTo(TextWords, MaxTextWords)} \cup {" ", "Brca1\tMUTATION."}

\* every variable as after construction, but for the call that is about to be made
CallInit(c) ==
    /\ papers = <<>>
    /\ hypotheses = EmptyMap
    /\ knowledgeGraph = EmptyMap
    /\ connections = EmptyMap
    /\ last = [op |-> "init", id |-> "", threw |-> FALSE]
    /\ validation = NoValidation
    /\ apiKey = ""
    /\ rag = RagIdle
    /\ drive = DriveIdle
    /\ viewSourcePapers = <<>>
    /\ globalCount = 0
    /\ globalSourcePapers = <<>>
    /\ validatedOk = NotValidated
    /\ call = c

\* the call returns r
CallReturns(r) ==
    /\ call' = [call EXCEPT !.called = TRUE, !.result = r]
    /\ last' = [op |-> call.op, id |-> "", threw |-> FALSE]
    /\ UNCHANGED <<storeVars, validation, apiKey, rag, drive, viewSourcePapers,
                   globalCount, globalSourcePapers, validatedOk>>

RelevanceInit ==
    \E query \in RelevanceQueries, text \in RelevanceTexts :
        CallInit([op |-> "calculateAdvancedRelevance", query |-> query, text |-> text,
                  called |-> FALSE, result |-> Num(0)])

CalculateAdvancedRelevance ==
    /\ call.op = "calculateAdvancedRelevance"
    /\ ~call.called
    /\ CallReturns(calculateAdvancedRelevance(call.query, call.text))

RelevanceNext == CalculateAdvancedRelevance

SpecRelevance == RelevanceInit /\ [][RelevanceNext]_vars

Scored == call.op = "calculateAdvancedRelevance" /\ call.called

\* whether the query has a word longer than 2 characters
HasLongWord(query) ==
    \E i \in 1..Len(splitSpaces(query)) : Len(splitSpaces(query)[i]) > 2

\* C11: calculateAdvancedRelevance returns a value in [0, 1], and 0 whenever the query
\* has no word longer than 2 characters or the text is empty.
C11_RelevanceInUnitInterval ==
    Scored
    => /\ RatLe(Num(0), call.result)
       /\ RatLe(call.result, Num(1))
       /\ (~HasLongWord(call.query) \/ call.text = "") => call.result = Num(0)

\* an empty text scored for a query that has a long word
C11_Witness ==
    /\ Scored
    /\ call.text = ""
    /\ HasLongWord(call.query)
    /\ call.result = Num(0)

\* texts that hold words of the scenario's query only inside longer words
PartialTexts ==
    {join(ws, " ") : ws \in SeqsUpTo({"mutations"}, MaxTextWords) \ {<<>>}}
        \cup {"xBRCA1", "mutations xBRCA1"}

ContainsPhrase(query, text) == includes(toLowerCase(text), toLowerCase(query))

\* number of (query word, text word) pairs in which the text word contains the query
\* word without being equal to it, and the same for equal words
PartialMatches(query, text) ==
    LET qs == relevanceQueryWords(query)
        ws == splitSpaces(toLowerCase(text))
    IN  Cardinality({<<i, j>> \in (1..Len(qs)) \X (1..Len(ws)) :
                        includes(ws[j], qs[i]) /\ ws[j] # qs[i]})
ExactMatches(query, text) ==
    LET qs == relevanceQueryWords(query)
        ws == splitSpaces(toLowerCase(text))
    IN  Cardinality({<<i, j>> \in (1..Len(qs)) \X (1..Len(ws)) : ws[j] = qs[i]})

\* the text holds partial matches of the query's words and nothing else of the query
PartialOnly(query, text) ==
    /\ PartialMatches(query, text) > 0
    /\ ExactMatches(query, text) = 0
    /\ ~ContainsPhrase(query, text)

ScenarioDCall ==
    /\ Scored
    /\ call.query = ScenarioQuery
    /\ ContainsPhrase(call.query, call.text)

----------------------------------------------------------------------------
(* Search: ResearchDataStore.searchByTerm, RAGService.searchPaperContent   *)
(* and useGlobalData.searchPDFContent over the papers that were ingested.  *)

\* the papers of searchByTerm's result: those whose title, text or an author contains
\* the whole term
searchByTermPapers(st, term) ==
    LET lowerTerm == toLowerCase(term)
    IN  SelectSeq(getAllPapers(st),
                  LAMBDA paper :
                      \/ includes(toLowerCase(paper.title), lowerTerm)
                      \/ includes(toLowerCase(paper.extractedText), lowerTerm)
                      \/ \E a \in 1..Len(paper.authors) :
                            includes(toLowerCase(paper.authors[a]), lowerTerm))

\* [.!?]
SentenceEndChars == {".", "!", "?"}

\* the first index >= i of s that holds a character of cs, or none of cs
RECURSIVE skipUntilIn(_, _, _)
skipUntilIn(s, cs, i) ==
    IF i <= Len(s) /\ Char(s, i) \notin cs THEN skipUntilIn(s, cs, i + 1) ELSE i
RECURSIVE skipWhileIn(_, _, _)
skipWhileIn(s, cs, i) ==
    IF i <= Len(s) /\ Char(s, i) \in cs THEN skipWhileIn(s, cs, i + 1) ELSE i

\* s.split(/[cs]+/) from index i on
RECURSIVE splitRunsFrom(_, _, _)
splitRunsFrom(s, cs, i) ==
    LET j == skipUntilIn(s, cs, i)
    IN  IF j > Len(s) THEN <<SubSeq(s, i, Len(s))>>
        ELSE <<SubSeq(s, i, j - 1)>> \o splitRunsFrom(s, cs, skipWhileIn(s, cs, j))

\* maxLength: number = 500
MaxExcerptChars == 500
\* s.trim().length > 10
MinSentenceChars == 10

\* String.prototype.substring(0, n)
substring0(s, n) == SubSeq(s, 1, IF n < Len(s) THEN n ELSE Len(s))

extractRelevantExcerpt(query, text) ==
    LET queryWords == splitSpaces(toLowerCase(query))
        sentences == SelectSeq(splitRunsFrom(text, SentenceEndChars, 1),
                               LAMBDA sentence : Len(trim(sentence)) > MinSentenceChars)
        isRelevant(sentence) ==
            \E w \in 1..Len(queryWords) : includes(toLowerCase(sentence), queryWords[w])
        relevant == {k \in 1..Len(sentences) : isRelevant(sentences[k])}
    IN  IF relevant = {} THEN substring0(text, MaxExcerptChars) \o "..."
        ELSE LET bestIndex == CHOOSE k \in relevant : \A other \in relevant : k <= other
                 first == IF bestIndex - 1 > 1 THEN bestIndex - 1 ELSE 1
                 lastOne == IF bestIndex + 3 < Len(sentences) THEN bestIndex + 3
                            ELSE Len(sentences)
                 excerpt == trim(join(SubSeq(sentences, first, lastOne), ". "))
             IN  IF Len(excerpt) > MaxExcerptChars
                 THEN substring0(excerpt, MaxExcerptChars) \o "..."
                 ELSE excerpt

\* relevance > 0.1
InclusionThreshold == Rat(1, 10)

\* what the forEach over a paper's relevantSections pushes, from section i on
RECURSIVE sectionEntries(_, _, _)
sectionEntries(query, paper, i) ==
    IF i > Len(paper.relevantSections) THEN <<>>
    ELSE LET sectionRelevance == calculateAdvancedRelevance(query, paper.relevantSections[i])
         IN  (IF RatLt(InclusionThreshold, sectionRelevance)
              THEN <<[paperId |-> paper.id, section |-> paper.relevantSections[i],
                      relevance |-> sectionRelevance]>>
              ELSE <<>>)
             \o sectionEntries(query, paper, i + 1)

\* what one round of searchResults.papers.forEach pushes
paperEntries(query, paper) ==
    LET mainTextRelevance == calculateAdvancedRelevance(query, paper.extractedText)
    IN  (IF RatLt(InclusionThreshold, mainTextRelevance)
         THEN <<[paperId |-> paper.id,
                 section |-> "Main Content: " \o extractRelevantExcerpt(query, paper.extractedText),
                 relevance |-> mainTextRelevance]>>
         ELSE <<>>)
        \o sectionEntries(query, paper, 1)

RECURSIVE allEntries(_, _, _)
allEntries(query, ps, i) ==
    IF i > Len(ps) THEN <<>>
    ELSE paperEntries(query, ps[i]) \o allEntries(query, ps, i + 1)

\* .sort((a, b) => b.relevance - a.relevance): a stable sort, the highest relevance first
RECURSIVE sortByRelevance(_)
sortByRelevance(xs) ==
    IF Len(xs) = 0 THEN <<>>
    ELSE LET sorted == sortByRelevance(SubSeq(xs, 1, Len(xs) - 1))
             e == xs[Len(xs)]
             k == Cardinality({i \in 1..Len(sorted) : RatLe(e.relevance, sorted[i].relevance)})
         IN  SubSeq(sorted, 1, k) \o <<e>> \o SubSeq(sorted, k + 1, Len(sorted))

\* .filter((section, index, arr) => arr.findIndex(same paperId and section) === index)
RECURSIVE uniqueFrom(_, _)
uniqueFrom(xs, i) ==
    IF i > Len(xs) THEN <<>>
    ELSE (IF \E j \in 1..(i - 1) :
                xs[j].paperId = xs[i].paperId /\ xs[j].section = xs[i].section
          THEN <<>> ELSE <<xs[i]>>)
         \o uniqueFrom(xs, i + 1)

\* uniqueSections.slice(0, 10)
TopSections == 10

\* a faulty variant, for comparison: the entries are not sorted
rankUnsorted(relevantSections) ==
    Take(uniqueFrom(relevantSections, 1), TopSections)

\* searchPaperContent from 'Sort by relevance and remove duplicates' on
rankSections(relevantSections) ==
    Take(uniqueFrom(sortByRelevance(relevantSections), 1), TopSections)

searchPaperContent(st, query) ==
    LET searchResults == searchByTermPapers(st, query)
    IN  [papers |-> idsOf(searchResults),
         relevantSections |-> rankSections(allEntries(query, searchResults, 1))]

\* hasRelevantContent: relevantContent[0].relevance > 0.3
RelevantThreshold == Rat(3, 10)

\* searchPDFContent when the global sourcePapers list holds papers
searchPDFContentOfStore(st, count, query) ==
    LET searchResults == searchPaperContent(st, query)
        relevantContent ==
            [i \in 1..Len(searchResults.relevantSections) |->
                [paperId |-> searchResults.relevantSections[i].paperId,
                 content |-> searchResults.relevantSections[i].section,
                 relevance |-> searchResults.relevantSections[i].relevance]]
    IN  [relevantContent |-> relevantContent,
         hasRelevantContent |->
            /\ Len(relevantContent) > 0
            /\ RatLt(RelevantThreshold, relevantContent[1].relevance)]

\* useGlobalData.searchPDFContent; count is the length of the global sourcePapers list
searchPDFContent(st, count, query) ==
    IF count = 0 THEN [relevantContent |-> <<>>, hasRelevantContent |-> FALSE]
    ELSE searchPDFContentOfStore(st, count, query)

\* what processPDFFile stores for an uploaded file
mockExtraction(fileName, now) ==
    [id |-> "pdf_" \o ToString(now),
     title |-> removeFirst(fileName, ".pdf"),
     authors |-> <<"Extracted from PDF">>,
     url |-> "blob:" \o fileName,
     extractedText |->
        "PDF content would be extracted here using proper PDF parsing libraries",
     relevantSections |-> <<"Introduction section with key concepts",
                            "Methodology explaining research approach",
                            "Results showing findings",
                            "Discussion of implications">>,
     citationStyle |-> fileName \o " (PDF Document)"]

\* the PDFs of the Drive folder that is searched, and what their download answers
SearchPdfs ==
    {[id |-> "s1", name |-> "risk.pdf",
      data |-> [success |-> TRUE, content |-> "BRCA1 mutation raises risk of cancer.",
                sections |-> <<"mutations", "BRCA1 mutation", "the BRCA1", "mutations",
                               "risk of BRCA1 mutation">>,
                error |-> ""]],
     [id |-> "s2", name |-> "mice.pdf",
      data |-> [success |-> TRUE, content |-> "A BRCA1 mutation was found in mice.",
                sections |-> <<"BRCA1", "xBRCA1", "mutation", "BRCA1 mutations",
                               "mutation of BRCA1">>,
                error |-> ""]],
     [id |-> "s3", name |-> "common.pdf",
      data |-> [success |-> TRUE, content |-> "Mutation of BRCA1 is common in mice.",
                sections |-> <<>>, error |-> ""]]}

UploadedFiles == {"notes.pdf"}

SearchQueries == {ScenarioQuery, "mutation", "PDF content"}

SearchInit == CallInit(NoCall)

\* processPDFsFromDrive for one PDF whose download succeeds: processPDFContent, then
\* addSourcePaper; no handler runs between the two
SearchIngest ==
    \E pdf \in SearchPdfs :
        /\ drive.pc = "idle"
        /\ globalCount < MaxGlobal
        /\ hasMinimalContent(pdf.data.content)
        /\ LET r == processPDFContent(TheStore, driveSourcePaper(pdf, pdf.data))
               g == addSourcePaper(r.st, globalCount, globalSourcePapers,
                                r.sourcePaper)
           IN  /\ SetStore(g.st)
               /\ globalCount' = g.count
               /\ globalSourcePapers' = g.sourcePapers
        /\ call' = NoCall
        /\ Handled
        /\ UNCHANGED <<validation, apiKey, rag, drive, viewSourcePapers, validatedOk>>

\* handlePDFUpload: processPDFFile resolves for a file, the paper is in the store; the
\* handler goes on to the next file or to the end of its loop
UploadProcessPDFFile ==
    \E fileName \in UploadedFiles : \E now \in Now :
        /\ drive.pc = "idle"
        /\ globalCount < MaxGlobal
        /\ LET paper == mockExtraction(fileName, now)
           IN  /\ SetStore(addPaper(TheStore, paper))
               /\ drive' = [pc |-> "uploaded", sourcePaper |-> paper]
        /\ call' = NoCall
        /\ Handled
        /\ UNCHANGED <<validation, apiKey, rag, viewSourcePapers, globalCount,
                       globalSourcePapers, validatedOk>>

\* handlePDFUpload after its loop: addSourcePaper for the processed paper
UploadAddSourcePaper ==
    /\ drive.pc = "uploaded"
    /\ LET g == addSourcePaper(TheStore, globalCount, globalSourcePapers,
                                drive.sourcePaper)
       IN  /\ SetStore(g.st)
           /\ globalCount' = g.count
           /\ globalSourcePapers' = g.sourcePapers
    /\ drive' = DriveIdle
    /\ call' = NoCall
    /\ Handled
    /\ UNCHANGED <<validation, apiKey, rag, viewSourcePapers, validatedOk>>

SearchReturns(op, query, result) ==
    /\ call' = [op |-> op, query |-> query, called |-> TRUE, result |-> result]
    /\ last' = [op |-> op, id |-> "", threw |-> FALSE]
    /\ UNCHANGED <<storeVars, validation, apiKey, rag, drive, viewSourcePapers,
                   globalCount, globalSourcePapers, validatedOk>>

SearchPaperContent ==
    \E query \in SearchQueries :
        SearchReturns("searchPaperContent", query, searchPaperContent(TheStore, query))

SearchPDFContent ==
    \E query \in SearchQueries :
        SearchReturns("searchPDFContent", query,
                      searchPDFContent(TheStore, globalCount, query))

SearchNext ==
    \/ SearchIngest
    \/ UploadProcessPDFFile
    \/ UploadAddSourcePaper
    \/ SearchPaperContent
    \/ SearchPDFContent

SpecSearch == SearchInit /\ [][SearchNext]_vars

\* C13: searchPaperContent returns relevantSections in non-increasing order of
\* relevance, with at most 10 entries, no two of them with the same paperId and the same
\* section text.
C13_RankedTopUnique ==
    last.op = "searchPaperContent"
    => LET rs == call.result.relevantSections
       IN  /\ \A i \in 1..(Len(rs) - 1) : RatLe(rs[i + 1].relevance, rs[i].relevance)
           /\ Len(rs) <= 10
           /\ \A i, j \in 1..Len(rs) :
                 (rs[i].paperId = rs[j].paperId /\ rs[i].section = rs[j].section) => i = j

\* a search that found more than 10 sections, a duplicate among them, and sections of
\* different relevance
C13_Witness ==
    /\ last.op = "searchPaperContent"
    /\ Len(call.result.relevantSections) = 10
    /\ Len(allEntries(call.query, searchByTermPapers(TheStore, call.query), 1)) > 11
    /\ call.result.relevantSections[10].relevance # call.result.relevantSections[1].relevance

\* whether the full text or a section of the paper scores above the threshold
ScoresAboveThreshold(query, paper) ==
    \/ RatLt(InclusionThreshold, calculateAdvancedRelevance(query, paper.extractedText))
    \/ \E i \in 1..Len(paper.relevantSections) :
          RatLt(InclusionThreshold,
                calculateAdvancedRelevance(query, paper.relevantSections[i]))

FoundSections ==
    IF last.op = "searchPaperContent" THEN call.result.relevantSections
    ELSE call.result.relevantContent

\* C14: after a search, every stored paper whose full text or a section scores above the
\* inclusion threshold has an entry in the result, unless the result was cut at 10
\* entries; whether or not the query occurs literally in the paper, and whether or not
\* the global list holds papers.
C14_EveryScoringPaperFound ==
    (last.op \in {"searchPaperContent", "searchPDFContent"} /\ Len(FoundSections) < 10)
    => \A p \in 1..Len(papers) :
          ScoresAboveThreshold(call.query, papers[p])
          => \E i \in 1..Len(FoundSections) : FoundSections[i].paperId = papers[p].id

----------------------------------------------------------------------------
(* The download_pdf handler of the edge function: text extraction from the *)
(* bytes of a PDF.  The buffer is a string, one character per byte (the    *)
(* handler decodes it as latin1); "\f" stands for a byte that is not       *)
(* printable.                                                              *)

\* the bytes 32..126
IsPrintable(c) == c \notin {"\t", "\n", "\r", "\f"}

endsWith(s, t) == Len(t) <= Len(s) /\ SubSeq(s, Len(s) - Len(t) + 1, Len(s)) = t

\* s.match(/open[\s\S]*?close/g) from index i on
RECURSIVE matchesBetween(_, _, _, _)
matchesBetween(s, open, close, i) ==
    LET p == indexOf(s, open, i)
        q == indexOf(s, close, p + Len(open))
    IN  IF p > Len(s) \/ q > Len(s) THEN <<>>
        ELSE <<SubSeq(s, p, q + Len(close) - 1)>>
             \o matchesBetween(s, open, close, q + Len(close))

\* m.replace(/^open\s*/, '').replace(/\s*close$/, '')
stripMarkers(m, open, close) ==
    LET afterOpen == IF startsWithAt(m, open, 1)
                     THEN SubSeq(m, skipSpaces(m, Len(open) + 1), Len(m)) ELSE m
    IN  IF endsWith(afterOpen, close)
        THEN trimEnd(SubSeq(afterOpen, 1, Len(afterOpen) - Len(close)))
        ELSE afterOpen

\* .replace(/[^\x20-\x7E\n\r\t]/g, ' ')
replaceNonPrintable(s, i) ==
    concat([k \in 1..Len(s) |->
               IF IsPrintable(Char(s, k)) \/ Char(s, k) \in {"\n", "\r", "\t"}
               THEN Char(s, k) ELSE " "],
           i, Len(s))

\* readable.length > 20
MinReadableChars == 20

\* Method 1: what the loop over streamMatches adds to extractedText
RECURSIVE streamText(_, _)
streamText(streamMatches, k) ==
    IF k > Len(streamMatches) THEN ""
    ELSE LET content == stripMarkers(streamMatches[k], "stream", "endstream")
             readable == trim(collapseWhitespace(replaceNonPrintable(content, 1), 1))
         IN  (IF Len(readable) > MinReadableChars THEN readable \o " " ELSE "")
             \o streamText(streamMatches, k + 1)

\* s.match(/\([^)]+\)\s*Tj/g) from index i on
RECURSIVE textObjectsFrom(_, _)
textObjectsFrom(s, i) ==
    LET p == indexOf(s, "(", i)
        q == indexOf(s, ")", p + 1)
        k == skipSpaces(s, q + 1)
    IN  IF p > Len(s) \/ q > Len(s) THEN <<>>
        ELSE IF q > p + 1 /\ startsWithAt(s, "Tj", k)
        THEN <<SubSeq(s, p, k + 1)>> \o textObjectsFrom(s, k + 2)
        ELSE textObjectsFrom(s, p + 1)

\* text.length > 2
MinTextObjectChars == 2

\* Method 2: what the loop over textObjects adds to extractedText
RECURSIVE textObjectsText(_, _)
textObjectsText(textObjects, k) ==
    IF k > Len(textObjects) THEN ""
    ELSE LET text == SubSeq(textObjects[k], 2, indexOf(textObjects[k], ")", 2) - 1)
         IN  (IF Len(text) > MinTextObjectChars THEN text \o " " ELSE "")
             \o textObjectsText(textObjects, k + 1)

\* s.match(/\([^)]+\)/g) from index i on
RECURSIVE parenWordsFrom(_, _)
parenWordsFrom(s, i) ==
    LET p == indexOf(s, "(", i)
        q == indexOf(s, ")", p + 1)
    IN  IF p > Len(s) \/ q > Len(s) THEN <<>>
        ELSE IF q > p + 1 THEN <<SubSeq(s, p, q)>> \o parenWordsFrom(s, q + 1)
        ELSE parenWordsFrom(s, p + 1)

\* word.replace(/[()]/g, '')
removeParens(s, i) ==
    concat([k \in 1..Len(s) |-> IF Char(s, k) \in {"(", ")"} THEN "" ELSE Char(s, k)],
           i, Len(s))

hasLetter(s) == \E i \in 1..Len(s) : IsLetter(Char(s, i))

\* what the loop over the words of one text block adds to extractedText
RECURSIVE blockWordsText(_, _)
blockWordsText(words, k) ==
    IF k > Len(words) THEN ""
    ELSE LET cleanWord == trim(removeParens(words[k], 1))
         IN  (IF Len(cleanWord) > 1 /\ hasLetter(cleanWord) THEN cleanWord \o " " ELSE "")
             \o blockWordsText(words, k + 1)

\* Method 3: what the loop over textBlocks adds to extractedText
RECURSIVE textBlocksText(_, _)
textBlocksText(textBlocks, k) ==
    IF k > Len(textBlocks) THEN ""
    ELSE blockWordsText(parenWordsFrom(stripMarkers(textBlocks[k], "BT", "ET"), 1), 1)
         \o textBlocksText(textBlocks, k + 1)

\* Method 4: the printable bytes of the buffer but its last one; a line break becomes a
\* space once the text has begun
asciiFrom(s, i, begun) ==
    concat([k \in 1..Len(s) |->
               IF IsPrintable(Char(s, k)) THEN Char(s, k)
               ELSE IF /\ Char(s, k) \in {"\n", "\r"}
                       /\ (begun \/ \E p \in i..(k - 1) : IsPrintable(Char(s, p)))
               THEN " "
               ELSE ""],
           i, Len(s) - 1)

\* extractedText.length < 100
FallbackBelowChars == 100

\* a faulty variant, for comparison: Method 4 is never run
extractionWithoutFallback(pdfText, structured, methods) ==
    [extractedText |-> structured, extractionMethods |-> methods]

\* a faulty variant, for comparison: Method 4 adds its text to what Methods 1 to 3 found
fallbackAppended(pdfText, structured, methods) ==
    IF Len(structured) < FallbackBelowChars
    THEN [extractedText |-> structured \o asciiFrom(pdfText, 1, FALSE),
          extractionMethods |-> methods \o <<"ascii_fallback">>]
    ELSE [extractedText |-> structured, extractionMethods |-> methods]

\* Method 4, with what Methods 1 to 3 have found
fallbackExtraction(pdfText, structured, methods) ==
    IF Len(structured) < FallbackBelowChars
    THEN [extractedText |-> asciiFrom(pdfText, 1, FALSE),
          extractionMethods |-> methods \o <<"ascii_fallback">>]
    ELSE [extractedText |-> structured, extractionMethods |-> methods]

\* Methods 1 to 3 over the matches of their three patterns, then Method 4
extractMatches(pdfText, streamMatches, textObjects, textBlocks) ==
    fallbackExtraction(
        pdfText,
        streamText(streamMatches, 1) \o textObjectsText(textObjects, 1)
            \o textBlocksText(textBlocks, 1),
        (IF Len(streamMatches) > 0 THEN <<"stream_extraction">> ELSE <<>>)
            \o (IF Len(textObjects) > 0 THEN <<"text_objects">> ELSE <<>>)
            \o (IF Len(textBlocks) > 0 THEN <<"text_blocks">> ELSE <<>>))

\* Methods 1 to 4: the text that is cleaned next, and extractionMethods
extractText(pdfText) ==
    extractMatches(pdfText,
                   matchesBetween(pdfText, "stream", "endstream", 1),
                   textObjectsFrom(pdfText, 1),
                   matchesBetween(pdfText, "BT", "ET", 1))

\* .replace(/\\n/g, ' ').replace(/\\r/g, ' ').replace(/\\t/g, ' '): a backslash and the
\* letter after it
replaceEscapes(s, i) ==
    concat([k \in 1..Len(s) |->
               IF \E e \in {"\\n", "\\r", "\\t"} : startsWithAt(s, e, k) THEN " "
               ELSE IF k > i /\ \E e \in {"\\n", "\\r", "\\t"} : startsWithAt(s, e, k - 1)
               THEN ""
               ELSE Char(s, k)],
           i, Len(s))

\* [\w\s.,;:!?()\-"']
IsKeptChar(c) ==
    \/ IsWordChar(c)
    \/ IsSpace(c)
    \/ c \in {".", ",", ";", ":", "!", "?", "(", ")", "-", "\"", "'"}

\* .replace(/[^\w\s.,;:!?()\-"']/g, ' ')
replaceOtherChars(s, i) ==
    concat([k \in 1..Len(s) |-> IF IsKeptChar(Char(s, k)) THEN Char(s, k) ELSE " "],
           i, Len(s))

\* 'Clean extracted text'
cleanExtractedText(extractedText) ==
    trim(replaceOtherChars(collapseWhitespace(replaceEscapes(extractedText, 1), 1), 1))

\* s.length > 10
MinExtractSentenceChars == 10

\* .filter(s => s.length > 10 && /[a-zA-Z]/.test(s)).map(s => s + '.')
keptSentences(trimmed) ==
    [k \in 1..Len(SelectSeq(trimmed, LAMBDA x : Len(x) > MinExtractSentenceChars
                                                  /\ hasLetter(x))) |->
        SelectSeq(trimmed, LAMBDA x : Len(x) > MinExtractSentenceChars /\ hasLetter(x))[k]
        \o "."]

\* .map(s => s.trim()) and what follows it
trimmedSentences(pieces) == keptSentences([k \in 1..Len(pieces) |-> trim(pieces[k])])

\* 'Create meaningful sections': sentences
sentencesOf(extractedText) ==
    trimmedSentences(splitRunsFrom(extractedText, SentenceEndChars, 1))

\* cleanedText.length > 500, and currentSection.length + sentence.length > 800
GroupAboveChars == 500
GroupChars == 800

\* the loop over sentences that fills sections, from sentence i on
RECURSIVE groupSentences(_, _, _)
groupSentences(sentences, i, currentSection) ==
    LET flushed == IF trim(currentSection) # "" THEN <<trim(currentSection)>> ELSE <<>>
    IN  IF i > Len(sentences) THEN flushed
        ELSE IF Len(currentSection) + Len(sentences[i]) > GroupChars
        THEN flushed \o groupSentences(sentences, i + 1, sentences[i] \o " ")
        ELSE groupSentences(sentences, i + 1, currentSection \o sentences[i] \o " ")

\* a faulty variant, for comparison: a short text is given no section
sectionsOnlyGrouped(sentences, cleanedText) ==
    IF Len(cleanedText) > GroupAboveChars THEN groupSentences(sentences, 1, "") ELSE <<>>

\* 'Split into sections'
sectionsOf(sentences, cleanedText) ==
    IF Len(cleanedText) > GroupAboveChars THEN groupSentences(sentences, 1, "")
    ELSE <<cleanedText>>

\* finalText.length > 8000, finalText.length < 50, sections.slice(0, 5)
MaxContentChars == 8000
MinFinalChars == 50
MaxResponseSections == 5

placeholderText(file_id) ==
    "PDF document content extracted from file " \o file_id
    \o ". The document may contain complex formatting or embedded images that require"
    \o " alternative processing methods for optimal text extraction."

\* 'Prepare final text (limit to 8000 characters)'
truncatedText(cleanedText) ==
    IF Len(cleanedText) > MaxContentChars
    THEN substring0(cleanedText, MaxContentChars) \o "... [Content truncated]"
    ELSE cleanedText

\* 'Handle edge case where extraction failed', and the response; textToClean and
\* cleanedText are the handler's extractedText before cleaning and its cleanedText
pdfResponse(extraction, sections, cleanedText, truncated, file_id) ==
    [success |-> TRUE, error |-> "",
     content |-> IF Len(truncated) < MinFinalChars THEN placeholderText(file_id)
                 ELSE truncated,
     sections |-> Take(IF Len(truncated) < MinFinalChars
                       THEN Append(sections, placeholderText(file_id)) ELSE sections,
                       MaxResponseSections),
     sectionCount |-> IF Len(truncated) < MinFinalChars THEN Len(sections) + 1
                      ELSE Len(sections),
     extractionMethods |-> extraction.extractionMethods,
     textToClean |-> extraction.extractedText,
     cleanedText |-> cleanedText]

\* the handler from cleanedText on
respondCleaned(extraction, sentences, cleanedText, file_id) ==
    pdfResponse(extraction, sectionsOf(sentences, cleanedText), cleanedText,
                truncatedText(cleanedText), file_id)

\* the handler from 'Clean extracted text' on
respondExtraction(extraction, sentences, file_id) ==
    respondCleaned(extraction, sentences, join(sentences, " "), file_id)

\* the handler once the buffer holds bytes
respondBuffer(extraction, file_id) ==
    respondExtraction(extraction,
                      sentencesOf(cleanExtractedText(extraction.extractedText)), file_id)

\* the response of download_pdf for a buffer that was downloaded
downloadPdf(pdfBuffer, file_id) ==
    IF Len(pdfBuffer) = 0
    THEN [success |-> FALSE, error |-> "PDF file is empty or could not be downloaded",
          content |-> "", sections |-> <<>>, sectionCount |-> 0,
          extractionMethods |-> <<>>, textToClean |-> "", cleanedText |-> ""]
    ELSE respondBuffer(extractText(pdfBuffer), file_id)

----------------------------------------------------------------------------
(* processPDFsFromDrive (Hypotheses.tsx): the loop over the PDFs, with the  *)
(* download_pdf handler answering each attempt.                            *)

\* const maxRetries = 2
maxRetries == 2
\* setTimeout(resolve, 1000)
RetryWaitMs == 1000

DriveSentence == "Gene expression drives the phenotype of the liver cells in mice. "

\* Scenario A: stream, 25 printable characters, endstream
ScenarioABuffer == "streamBRCA1 gene drives tumors.endstream"

\* the image of a scanned page, written in hexadecimal digits
ScanBuffer ==
    "stream4a6f686e20446f65206973206865726520616e6420746865726520616e64206e6fendstream"

\* the files of the Drive folder and the bytes of each
DriveFiles ==
    {[id |-> "p1", name |-> "paper.pdf",
      buffer |-> "stream\n" \o DriveSentence \o DriveSentence \o "\nendstream"],
     [id |-> "p2", name |-> "scenario.pdf", buffer |-> ScenarioABuffer],
     [id |-> "p3", name |-> "scan.pdf", buffer |-> ScanBuffer],
     [id |-> "p4", name |-> "empty.pdf", buffer |-> ""]}

NoFile == [id |-> "", name |-> "", buffer |-> ""]

\* what supabase.functions.invoke hands the loop as data when the handler answers with
\* status 400 (the download from Drive failed)
DownloadFailed ==
    [success |-> FALSE, error |-> "Failed to download PDF from Google Drive",
     content |-> "", sections |-> <<>>, sectionCount |-> 0,
     extractionMethods |-> <<>>, textToClean |-> "", cleanedText |-> ""]

\* the loop between two PDFs. pdf, retryCount, success and failedPdfs are the loop's
\* variables; attempts, waits and downloaded record what the loop has done for pdf: how
\* often it invoked download_pdf, how long it waited before each further attempt, and
\* whether every attempt was handed the bytes of the file
LoopIdle ==
    [pc |-> "idle", sourcePaper |-> MkPaper("", "", "", <<>>), pdf |-> NoFile,
     retryCount |-> 0, success |-> FALSE, failedPdfs |-> <<>>,
     attempts |-> 0, waits |-> <<>>, downloaded |-> TRUE, ended |-> FALSE]

LoopInit ==
    /\ papers = <<>>
    /\ hypotheses = EmptyMap
    /\ knowledgeGraph = EmptyMap
    /\ connections = EmptyMap
    /\ last = [op |-> "init", id |-> "", threw |-> FALSE]
    /\ validation = NoValidation
    /\ apiKey = ""
    /\ rag = RagIdle
    /\ drive = LoopIdle
    /\ viewSourcePapers = <<>>
    /\ globalCount = 0
    /\ globalSourcePapers = <<>>
    /\ validatedOk = NotValidated
    /\ call = NoCall

LoopUnchanged ==
    /\ Handled
    /\ UNCHANGED <<validation, apiKey, rag, viewSourcePapers, validatedOk, call>>

\* the for loop takes the next PDF of the list: a file it has not taken before
LoopNextPdf ==
    \E pdf \in DriveFiles :
        /\ drive.pc = "idle"
        /\ globalCount < MaxGlobal
        /\ pdf.id \notin PaperIdsOf(papers)
        /\ pdf.name \notin Range(drive.failedPdfs)
        /\ drive' = [LoopIdle EXCEPT !.pc = "attempt", !.pdf = pdf,
                                     !.failedPdfs = drive.failedPdfs]
        /\ UNCHANGED <<storeVars, globalCount, globalSourcePapers>>
        /\ LoopUnchanged

\* the catch block of the while loop
loopCatch(d) ==
    IF d.retryCount + 1 >= maxRetries
    THEN [d EXCEPT !.pc = "idle", !.retryCount = d.retryCount + 1,
                   !.failedPdfs = Append(d.failedPdfs, d.pdf.name), !.ended = TRUE]
    ELSE [d EXCEPT !.pc = "waiting", !.retryCount = d.retryCount + 1,
                   !.waits = Append(d.waits, RetryWaitMs)]

\* one pass of the while loop up to the await of processPDFContent or to the end of the
\* catch block: download_pdf is invoked and answers for the bytes of the file, or with
\* the failure of the download
LoopAttempt ==
    \E ok \in BOOLEAN :
        /\ drive.pc = "attempt"
        /\ drive.retryCount < maxRetries /\ ~drive.success
        /\ \E data \in {IF ok THEN downloadPdf(drive.pdf.buffer, drive.pdf.id)
                          ELSE DownloadFailed} :
           \E d \in {[drive EXCEPT !.attempts = drive.attempts + 1,
                                   !.downloaded = drive.downloaded /\ ok]} :
               IF data.success /\ Len(data.content) > 0 /\ hasMinimalContent(data.content)
               THEN \E r \in {processPDFContent(TheStore,
                                                driveSourcePaper(drive.pdf, data))} :
                        /\ SetStore(r.st)
                        /\ drive' = [d EXCEPT !.pc = "processed",
                                              !.sourcePaper = r.sourcePaper]
               ELSE /\ drive' = loopCatch(d)
                    /\ UNCHANGED storeVars
        /\ UNCHANGED <<globalCount, globalSourcePapers>>
        /\ LoopUnchanged

\* the timer of the catch block fires and the while loop goes round
LoopWait ==
    /\ drive.pc = "waiting"
    /\ drive' = [drive EXCEPT !.pc = "attempt"]
    /\ UNCHANGED <<storeVars, globalCount, globalSourcePapers>>
    /\ LoopUnchanged

\* after processPDFContent: addSourcePaper, success = true, and the while loop ends
LoopAddSourcePaper ==
    /\ drive.pc = "processed"
    /\ LET g == addSourcePaper(TheStore, globalCount, globalSourcePapers,
                                drive.sourcePaper)
       IN  /\ SetStore(g.st)
           /\ globalCount' = g.count
           /\ globalSourcePapers' = g.sourcePapers
    /\ drive' = [drive EXCEPT !.pc = "idle", !.success = TRUE, !.ended = TRUE]
    /\ LoopUnchanged

LoopNext ==
    \/ LoopNextPdf
    \/ LoopAttempt
    \/ LoopWait
    \/ LoopAddSourcePaper

SpecDrive == LoopInit /\ [][LoopNext]_vars

\* C15: for every non-empty buffer that each attempt downloaded, the ingestion of the
\* file ends with a SourcePaper for it in the store, and the file is not among the
\* failed PDFs
C15_NonEmptyBufferIsStored ==
    (/\ drive.pc = "idle"
     /\ drive.ended
     /\ drive.downloaded
     /\ Len(drive.pdf.buffer) > 0)
    => /\ drive.pdf.id \in PaperIdsOf(papers)
       /\ drive.pdf.name \notin Range(drive.failedPdfs)

\* the troubleshooting guide: '3 retry attempts per PDF with exponential backoff'
RetryAttempts == 3

\* C20: a PDF is recorded as failed only after 3 attempts, and each wait between two
\* attempts is longer than the wait before it
C20_ThreeAttemptsWithBackoff ==
    (drive.ended /\ ~drive.success)
    => /\ drive.attempts >= RetryAttempts
       /\ \A k \in 1..(Len(drive.waits) - 1) : drive.waits[k] < drive.waits[k + 1]

----------------------------------------------------------------------------
(* The text functions, each called on its own: the download_pdf handler on  *)
(* the bytes of a file, extractRelevantSections, preprocessTextForSearch   *)
(* and parseHypothesisResponse.                                            *)

\* most pieces a buffer is put together from, and most lines of a response
MaxSegments == 2
MaxLines == 2
\* how often preprocessTextForSearch is applied to a text, each time to its last result
MaxApplications == 2

\* 25 printable characters with no structure of a PDF in them
ScenarioContents ==
    {"BRCA1 gene drives tumors.", "Liver cells grow in mice.",
     "ABCDEFGHIJKLMNOPQRSTUVWXY", "0123456789 0123456789 abc"}

ScenarioBuffers == {"stream" \o c \o "endstream" : c \in ScenarioContents}

\* a stream of 14 sentences: more text than one section of 800 characters holds
LongBuffer == "stream\n" \o concat([k \in 1..14 |-> DriveSentence], 1, 14) \o "endstream"

\* pieces of a PDF: a short stream, a text object, a text block, bytes that are not
\* printable, plain text, and a stream of two sentences
BufferSegments ==
    {"stream short endstream ", "(Hello world of genes) Tj ", "BT (Gene) (expression) ET ",
     "\f\n", DriveSentence,
     "stream\n" \o DriveSentence \o DriveSentence \o "\nendstream"}

PdfBuffers ==
    {concat(ws, 1, Len(ws)) : ws \in SeqsUpTo(BufferSegments, MaxSegments)}
    \cup ScenarioBuffers \cup {LongBuffer}

\* texts handed to preprocessTextForSearch
NormalizeTexts ==
    {"", " ", "a1b", "BRCA1 gene", "geneExpression", "3mice", "Hello ,world", "a  b",
     "x.y", "end.", "Tab\there", "p53 and BRCA1.", "12 mice;3 rats", "a1b2c", "\n\nA\n",
     DriveSentence}

\* cleaned texts, which is what extractRelevantSections is handed: short ones, one of
\* more than 100 characters and one of more than 1000
CleanedTexts ==
    {preprocessTextForSearch(t) :
        t \in NormalizeTexts
              \cup {DriveSentence \o DriveSentence,
                    concat([k \in 1..17 |-> DriveSentence], 1, 17)}}

\* lines of a completion: the labels the prompt asks for, the label the parser looks
\* for, and lines without a label or without a number
ResponseLines ==
    {"HYPOTHESIS: gene drives tumor", "CONFIDENCE: 80%", "CONFIDENCE: high",
     "LIMITATIONS: few mice", "SOURCES: Smith 2020, Lee 2021",
     "SOURCE PAPERS: Smith 2020 , Lee 2021", "INSUFFICIENT DATA"}

Responses == {join(ls, "\n") : ls \in SeqsUpTo(ResponseLines, MaxLines)}

TextCalls ==
    {[op |-> "download_pdf", pdfBuffer |-> b, file_id |-> "f1", called |-> FALSE,
      result |-> DownloadFailed] : b \in PdfBuffers}
    \cup {[op |-> "extractRelevantSections", text |-> t, called |-> FALSE,
           result |-> <<>>] : t \in CleanedTexts}
    \cup {[op |-> "preprocessTextForSearch", text |-> t, called |-> FALSE,
           result |-> "", times |-> 0] : t \in NormalizeTexts}
    \cup {[op |-> "parseHypothesisResponse", response |-> r, called |-> FALSE,
           result |-> parseHypothesisResponse("")] : r \in Responses}

TextInit == \E c \in TextCalls : CallInit(c)

\* the handler answers for the bytes it downloaded
DownloadPdf ==
    /\ call.op = "download_pdf" /\ ~call.called
    /\ CallReturns(downloadPdf(call.pdfBuffer, call.file_id))

ExtractRelevantSections ==
    /\ call.op = "extractRelevantSections" /\ ~call.called
    /\ CallReturns(extractRelevantSections(call.text))

\* preprocessTextForSearch, applied to the text or, after that, to its own result
PreprocessTextForSearch ==
    /\ call.op = "preprocessTextForSearch" /\ call.times < MaxApplications
    /\ \E text \in {IF call.called THEN call.result ELSE call.text} :
          call' = [call EXCEPT !.called = TRUE, !.text = text,
                               !.result = preprocessTextForSearch(text),
                               !.times = call.times + 1]
    /\ last' = [op |-> call.op, id |-> "", threw |-> FALSE]
    /\ UNCHANGED <<storeVars, validation, apiKey, rag, drive, viewSourcePapers,
                   globalCount, globalSourcePapers, validatedOk>>

ParseHypothesisResponse ==
    /\ call.op = "parseHypothesisResponse" /\ ~call.called
    /\ CallReturns(parseHypothesisResponse(call.response))

TextNext ==
    \/ DownloadPdf
    \/ ExtractRelevantSections
    \/ PreprocessTextForSearch
    \/ ParseHypothesisResponse

SpecText == TextInit /\ [][TextNext]_vars

\* download_pdf has answered for a buffer of Scenario A
ScenarioACalled ==
    call.op = "download_pdf" /\ call.called /\ call.pdfBuffer \in ScenarioBuffers

\* the 25 characters of a buffer of Scenario A
ScenarioContent == SubSeq(call.pdfBuffer, 7, Len(call.pdfBuffer) - 9)

C17_SectionsNonEmpty ==
    /\ (call.op = "download_pdf" /\ call.called /\ call.result.cleanedText # "")
       => Len(call.result.sections) > 0 /\ call.result.sectionCount > 0
    /\ (call.op = "extractRelevantSections" /\ call.called /\ call.text # "")
       => Len(call.result) > 0

\* the handler has grouped the sentences of a long text into two sections
C17_Witness ==
    /\ call.op = "download_pdf" /\ call.called
    /\ Len(call.result.cleanedText) > GroupChars
    /\ call.result.sectionCount = 2
    /\ Len(call.result.sections) = 2

\* C18: preprocessTextForSearch applied to its own output returns that output unchanged
C18_Idempotent ==
    (call.op = "preprocessTextForSearch" /\ call.times >= 2) => call.result = call.text

\* the label occurs in the response, and something other than white space follows it
LabelHasValue(response, label) ==
    \E i \in 1..Len(response) :
        /\ startsWithAt(response, label, i)
        /\ skipSpaces(response, i + Len(label)) <= Len(response)

\* C19: parseHypothesisResponse returns for every response; a field is absent when its
\* label (HYPOTHESIS:, CONFIDENCE:, LIMITATIONS:, SOURCES:) does not occur in the
\* response, and present when the label occurs with a value
C19_FieldsFollowLabels ==
    (call.op = "parseHypothesisResponse" /\ call.called)
    => /\ ~includes(call.response, "HYPOTHESIS:") => "hypothesis" \notin DOMAIN call.result
       /\ ~includes(call.response, "CONFIDENCE:") => ~call.result.hasConfidence
       /\ ~includes(call.response, "LIMITATIONS:") => ~call.result.hasLimitations
       /\ ~includes(call.response, "SOURCES:") => ~call.result.hasSources
       /\ LabelHasValue(call.response, "HYPOTHESIS:") => "hypothesis" \in DOMAIN call.result
       /\ LabelHasValue(call.response, "CONFIDENCE:") => call.result.hasConfidence
       /\ LabelHasValue(call.response, "LIMITATIONS:") => call.result.hasLimitations
       /\ LabelHasValue(call.response, "SOURCES:") => call.result.hasSources

----------------------------------------------------------------------------
(* The serve handler of the edge function google-drive-auth: one request   *)
(* from its arrival to its response, with Google answering each fetch.     *)

\* validActions: ['get_auth_url', 'list_folders', 'list_pdfs', 'download_pdf']
ValidActions == {"get_auth_url", "list_folders", "list_pdfs", "download_pdf"}

\* a field of the body that is not there
NoValue == [type |-> "undefined", value |-> ""]

\* the JSON values a body gives as access_token: none, a string, a number
AccessTokens ==
    {NoValue, [type |-> "string", value |-> "ya29.token"],
     [type |-> "number", value |-> "12345"]}

\* a request without a body (req.body is null), a body that is not JSON, and the
\* JSON value null
BodyWithout(kind) ==
    [kind |-> kind, action |-> "", access_token |-> NoValue, folder_id |-> "",
     file_id |-> ""]

\* JSON objects: no action, each valid action and one that is not valid, with and
\* without each of the other fields
RequestBodies ==
    {BodyWithout("none"), BodyWithout("invalid_json"), BodyWithout("null")}
    \cup {[kind |-> "object", action |-> a, access_token |-> t, folder_id |-> f,
           file_id |-> p] :
            a \in {""} \cup ValidActions \cup {"invalid_action_test"},
            t \in AccessTokens, f \in {"", "folder1"}, p \in {"", "f1"}}

\* hasCode: url.searchParams.has('code')
Requests ==
    {[method |-> "POST", hasCode |-> c, body |-> b] : c \in BOOLEAN, b \in RequestBodies}
    \cup {[method |-> m, hasCode |-> c, body |-> BodyWithout("none")] :
            m \in {"GET", "OPTIONS"}, c \in BOOLEAN}

\* what the handler does next: it answers with a status, or it awaits a fetch
respond(status) == [status |-> status, fetch |-> ""]
awaitFetch(url) == [status |-> 0, fetch |-> url]

\* the handler from 'const { action, access_token, folder_id, file_id } = requestBody'
\* on; access_token.substring of a number throws, which the outer catch answers
serveParameters(body) ==
    IF body.access_token.type = "number" THEN respond(500)
    ELSE IF body.action = "" THEN respond(400)
    ELSE IF body.action \in {"list_folders", "list_pdfs", "download_pdf"}
            /\ body.access_token.value = "" THEN respond(400)
    ELSE IF body.action = "list_pdfs" /\ body.folder_id = "" THEN respond(400)
    ELSE IF body.action = "download_pdf" /\ body.file_id = "" THEN respond(400)
    ELSE IF body.action = "get_auth_url" THEN respond(200)
    ELSE IF body.action \in {"list_folders", "list_pdfs", "download_pdf"}
         THEN awaitFetch("https://www.googleapis.com/drive/v3/files")
    ELSE respond(400)

\* the handler up to its first fetch; destructuring the JSON value null throws
serve(req, credentials) ==
    IF req.method = "OPTIONS" THEN respond(200)
    ELSE IF ~credentials THEN respond(500)
    ELSE IF req.hasCode THEN awaitFetch("https://oauth2.googleapis.com/token")
    ELSE IF req.body.kind = "invalid_json" THEN respond(400)
    ELSE IF req.body.kind = "null" THEN respond(500)
    ELSE serveParameters(req.body)

\* what Google answers to a fetch: a body, an empty body, a status that is not ok,
\* or no answer at all
GoogleReplies == {"ok", "empty", "unauthorized", "network_error"}

\* the status of the response once the fetch has been answered; a reply that is not
\* ok has the status 401, which list_folders and list_pdfs pass on
serveAfterFetch(req, reply) ==
    IF req.hasCode
    THEN IF reply = "network_error" THEN 500 ELSE 302
    ELSE IF reply = "network_error" THEN 500
    ELSE IF req.body.action = "download_pdf"
         THEN IF reply \in {"unauthorized", "empty"} THEN 400 ELSE 200
    ELSE IF reply = "unauthorized" THEN 401 ELSE 200

ServeInit ==
    \E req \in Requests, credentials \in BOOLEAN :
        CallInit([op |-> "serve", req |-> req, credentials |-> credentials,
                  called |-> FALSE, pc |-> "received", fetched |-> <<>>, status |-> 0])

ServeUnchanged ==
    UNCHANGED <<storeVars, last, validation, apiKey, rag, drive, viewSourcePapers,
                globalCount, globalSourcePapers, validatedOk>>

\* the handler runs until it answers or awaits a fetch
Serve ==
    /\ call.op = "serve" /\ call.pc = "received"
    /\ \E next \in {serve(call.req, call.credentials)} :
          call' = [call EXCEPT !.called = TRUE,
                               !.pc = IF next.fetch = "" THEN "responded" ELSE "fetching",
                               !.fetched = IF next.fetch = "" THEN @
                                           ELSE Append(@, next.fetch),
                               !.status = next.status]
    /\ ServeUnchanged

\* Google answers the fetch and the handler answers the request
GoogleAnswers ==
    /\ call.op = "serve" /\ call.pc = "fetching"
    /\ \E reply \in GoogleReplies :
          call' = [call EXCEPT !.pc = "responded",
                               !.status = serveAfterFetch(call.req, reply)]
    /\ ServeUnchanged

ServeNext ==
    \/ Serve
    \/ GoogleAnswers

SpecServe == ServeInit /\ [][ServeNext]_vars

\* the body lacks a parameter its action requires, or names no valid action
LacksParameter(body) ==
    \/ body.action = ""
    \/ body.action \notin ValidActions
    \/ /\ body.action \in {"list_folders", "list_pdfs", "download_pdf"}
       /\ body.access_token.type = "undefined"
    \/ body.action = "list_pdfs" /\ body.folder_id = ""
    \/ body.action = "download_pdf" /\ body.file_id = ""

\* C21: with the credentials configured, a POST that lacks a parameter its action
\* requires, or that names an action outside the four valid ones, leads to no fetch
\* and is answered with status 400, whatever else its URL or body contains
C21_InvalidPostGets400 ==
    (/\ call.op = "serve"
     /\ call.credentials
     /\ call.req.method = "POST"
     /\ LacksParameter(call.req.body))
    => /\ call.fetched = <<>>
       /\ call.pc = "responded" => call.status = 400

----------------------------------------------------------------------------
(* Claims about the graph that addHypothesis and addPaper build.           *)

\* how often x is in the list xs
Occurrences(xs, x) == Cardinality({i \in 1..Len(xs) : xs[i] = x})

\* the evidence a connection to the paper is to hold: the extractedEvidence entries
\* with that paper's id
EvidenceTextsOf(hypothesis, paperId) ==
    LET evs == SelectSeq(hypothesis.extractedEvidence, LAMBDA ev : ev.paperId = paperId)
    IN  [i \in 1..Len(evs) |-> evs[i].evidenceText]

\* C22: after a successful addHypothesis the graph holds the hypothesis node with
\* importance confidence / 100 and, for each distinct source paper, one derived_from
\* connection of weight 0.8 from the hypothesis node to the paper node whose evidence
\* is the extractedEvidence entries of that paper; the hypothesis node's connections
\* hold each source paper's node id exactly once, and each such paper node's
\* connections hold the hypothesis node id exactly once
C22_OneConnectionPerSourcePaper ==
    (last.op = "addHypothesis" /\ ~last.threw)
    => LET hypothesis == hypotheses[last.id]
           nodeId == HypothesisNodeId(last.id)
       IN  /\ nodeId \in DOMAIN knowledgeGraph
           /\ knowledgeGraph[nodeId].type = "hypothesis"
           /\ knowledgeGraph[nodeId].importance = RatDivNat(hypothesis.confidence, 100)
           /\ \A paperId \in Range(hypothesis.sourcePapers) :
                 LET paperNodeId == PaperNodeId(paperId)
                     connectionId == ConnectionId(nodeId, paperNodeId)
                 IN  /\ connectionId \in DOMAIN connections
                     /\ connections[connectionId].sourceId = nodeId
                     /\ connections[connectionId].targetId = paperNodeId
                     /\ connections[connectionId].type = "derived_from"
                     /\ connections[connectionId].weight = Rat(8, 10)
                     /\ [i \in 1..Len(connections[connectionId].evidence) |->
                            connections[connectionId].evidence[i].evidenceText]
                        = EvidenceTextsOf(hypothesis, paperId)
                     /\ Occurrences(knowledgeGraph[nodeId].connections, paperNodeId) = 1
                     /\ Occurrences(knowledgeGraph[paperNodeId].connections, nodeId) = 1
           /\ Len(knowledgeGraph[nodeId].connections)
              = Cardinality(Range(hypothesis.sourcePapers))

----------------------------------------------------------------------------
(* Supporting evidence of validateHypothesisAgainstSources.                *)

\* the hypothesis words longer than 3 characters that the paper's text contains
MatchedWordsOf(hypothesisText, paper) ==
    {word \in Range(splitSpaces(toLowerCase(hypothesisText))) :
        Len(word) > 3 /\ includes(toLowerCase(paper.extractedText), word)}

\* the sections of the paper that contain one of its matched words
SectionsWithMatch(hypothesisText, paper) ==
    {section \in Range(paper.relevantSections) :
        \E word \in MatchedWordsOf(hypothesisText, paper) :
            includes(toLowerCase(section), word)}

\* C25: every source paper that matches a hypothesis word and has a section containing
\* one of its matched words gets supporting evidence with its id whose evidenceText is
\* such a section
C25_MatchedSectionIsEvidence ==
    validation.called =>
        \A i \in 1..Len(validation.sourcePapers) :
            LET paper == validation.sourcePapers[i]
                sections == SectionsWithMatch(validation.hypothesisText, paper)
            IN  sections # {}
                => \E k \in 1..Len(validation.result.supportingEvidence) :
                      /\ validation.result.supportingEvidence[k].paperId = paper.id
                      /\ validation.result.supportingEvidence[k].evidenceText \in sections

----------------------------------------------------------------------------
(* Claims about the four extraction methods of download_pdf.               *)

\* what Methods 1 to 3 add to extractedText, in their order
StructuredText(pdfText) ==
    streamText(matchesBetween(pdfText, "stream", "endstream", 1), 1)
    \o textObjectsText(textObjectsFrom(pdfText, 1), 1)
    \o textBlocksText(matchesBetween(pdfText, "BT", "ET", 1), 1)

\* the handler has extracted text from a buffer that holds bytes
Extracted == call.op = "download_pdf" /\ call.called /\ Len(call.pdfBuffer) > 0

\* C23: ascii_fallback is among the reported methods exactly when Methods 1 to 3
\* together found fewer than 100 characters, and then the text that is cleaned is the
\* text of the ASCII fallback alone
C23_FallbackIffUnder100 ==
    Extracted =>
        /\ "ascii_fallback" \in Range(call.result.extractionMethods)
           <=> Len(StructuredText(call.pdfBuffer)) < FallbackBelowChars
        /\ "ascii_fallback" \in Range(call.result.extractionMethods)
           => call.result.textToClean = asciiFrom(call.pdfBuffer, 1, FALSE)
        /\ "ascii_fallback" \notin Range(call.result.extractionMethods)
           => call.result.textToClean = StructuredText(call.pdfBuffer)

\* the fallback ran although Methods 1 to 3 had found some text
C23_Witness ==
    /\ Extracted
    /\ "ascii_fallback" \in Range(call.result.extractionMethods)
    /\ StructuredText(call.pdfBuffer) # ""
    /\ call.result.textToClean # ""

\* one character for every printable byte of s, in order, and a space for every line
\* break that follows a printable byte
PrintableBytes(s) ==
    concat([k \in 1..Len(s) |->
               IF IsPrintable(Char(s, k)) THEN Char(s, k)
               ELSE IF /\ Char(s, k) \in {"\n", "\r"}
                       /\ \E p \in 1..(k - 1) : IsPrintable(Char(s, p))
               THEN " "
               ELSE ""],
           1, Len(s))

\* the fallback ran on the buffer of the call
FallbackRan == Extracted /\ "ascii_fallback" \in Range(call.result.extractionMethods)

\* C27: the text of the ASCII fallback holds, in order, one character for every
\* printable byte of the whole buffer, its last byte included, and a line break gives
\* a space only when some text has been emitted before it
C27_FallbackKeepsEveryPrintableByte ==
    FallbackRan => call.result.textToClean = PrintableBytes(call.pdfBuffer)

----------------------------------------------------------------------------
(* The phrase bonus of calculateAdvancedRelevance.                         *)

\* score after queryWords.forEach
ScoreOf(query, text) ==
    sumQueryWords(query, text, splitSpaces(toLowerCase(text)), relevanceQueryWords(query), 1)

\* what the exact and the partial matches add to score
MatchScore(query, text) ==
    RatAdd(Num(ExactMatches(query, text) * ExactWeight), Rat(PartialMatches(query, text), 2))

\* C24: the phrase bonus is 3 in total when the query occurs in the text, whatever the
\* number of query words, and nothing is added otherwise (in a call that scores: the
\* query has a word longer than 2 characters and the text has a word)
C24_PhraseBonusIsThreeInTotal ==
    (/\ Scored
     /\ Len(relevanceQueryWords(call.query)) > 0
     /\ Len(splitSpaces(toLowerCase(call.text))) > 0)
    => ScoreOf(call.query, call.text)
       = IF ContainsPhrase(call.query, call.text)
         THEN RatAdd(MatchScore(call.query, call.text), Num(PhraseBonus))
         ELSE MatchScore(call.query, call.text)

----------------------------------------------------------------------------
(* The prompt payload of generateRAGHypothesis (contextFromPDFs), as a     *)
(* function of the source papers the call has found.                       *)

\* paper.extractedText.length > 2000, substring(0, 2000)
MaxPromptTextChars == 2000
\* paper.relevantSections.slice(0, 3)
MaxPromptSections == 3

TruncationMarker == "... [truncated for efficiency]"

\* a faulty variant, for comparison: the text of a paper is not truncated
contextUntruncated(sourcePapers) ==
    [i \in 1..Len(sourcePapers) |->
        [title |-> sourcePapers[i].title,
         authors |-> join(sourcePapers[i].authors, ", "),
         content |-> sourcePapers[i].extractedText,
         sections |-> Take(sourcePapers[i].relevantSections, MaxPromptSections),
         citation |-> sourcePapers[i].citationStyle]]

contextFromPDFs(sourcePapers) ==
    [i \in 1..Len(sourcePapers) |->
        [title |-> sourcePapers[i].title,
         authors |-> join(sourcePapers[i].authors, ", "),
         content |->
            IF Len(sourcePapers[i].extractedText) > MaxPromptTextChars
            THEN SubSeq(sourcePapers[i].extractedText, 1, MaxPromptTextChars)
                 \o TruncationMarker
            ELSE sourcePapers[i].extractedText,
         sections |-> Take(sourcePapers[i].relevantSections, MaxPromptSections),
         citation |-> sourcePapers[i].citationStyle]]

\* the payload of a call that has found the papers: none when there is no paper, else
\* that of the first maxSourcePapers papers
promptPayload(sourcePapers) ==
    IF Len(sourcePapers) = 0 THEN <<>>
    ELSE contextFromPDFs(Take(sourcePapers, MaxSourcePapers))

\* most papers the store holds when the hypothesis is generated
MaxPromptPapers == 6

\* a text of n characters
TextOfChars(n) == SubSeq(concat([k \in 1..40 |-> DriveSentence], 1, 40), 1, n)

\* papers with texts around 2000 characters and with 0 to 4 sections
PromptPapers ==
    <<MkPaper("q1", "Paper 1", TextOfChars(1999), <<"s1", "s2", "s3", "s4">>),
      MkPaper("q2", "Paper 2", TextOfChars(2000), <<"s1", "s2", "s3">>),
      MkPaper("q3", "Paper 3", TextOfChars(2001), <<"s1">>),
      MkPaper("q4", "Paper 4", TextOfChars(2600), <<"s1", "s2", "s3", "s4">>),
      MkPaper("q5", "Paper 5", GeneText, <<GeneText>>),
      MkPaper("q6", "Paper 6", "", <<>>),
      MkPaper("q7", "Paper 7", TextOfChars(2030), <<"s1", "s2">>),
      MkPaper("q8", "Paper 8", TextOfChars(2031), <<"s1", "s2", "s3", "s4">>),
      MkPaper("q9", "Paper 9", TextOfChars(100), <<"s1", "s2", "s3", "s4", "s5">>)>>

\* the lists of papers a call finds: count papers of PromptPapers, from any of them on
PromptLists ==
    {[i \in 1..count |-> PromptPapers[((first + i - 2) % Len(PromptPapers)) + 1]] :
        count \in 0..MaxPromptPapers, first \in 1..Len(PromptPapers)}

PromptInit ==
    \E sourcePapers \in PromptLists :
        CallInit([op |-> "contextFromPDFs", sourcePapers |-> sourcePapers,
                  called |-> FALSE, result |-> <<>>])

ContextFromPDFs ==
    /\ call.op = "contextFromPDFs" /\ ~call.called
    /\ CallReturns(promptPayload(call.sourcePapers))

PromptNext == ContextFromPDFs

SpecPrompt == PromptInit /\ [][PromptNext]_vars

PayloadBuilt == call.op = "contextFromPDFs" /\ call.called

\* C26: the payload covers at most 5 papers, each with a text of at most 2000
\* characters and with at most 3 sections
C26_PayloadBounds ==
    PayloadBuilt
    => /\ Len(call.result) <= MaxSourcePapers
       /\ \A i \in 1..Len(call.result) :
             /\ Len(call.result[i].content) <= MaxPromptTextChars
             /\ Len(call.result[i].sections) <= MaxPromptSections

\* C26 as it holds: the payload covers at most 5 papers, each with at most 3 sections
\* and with at most the first 2000 characters of its text, which the marker of 30
\* characters follows when the text is longer
C26_PayloadBoundsAmended ==
    PayloadBuilt
    => /\ Len(call.result) <= MaxSourcePapers
       /\ \A i \in 1..Len(call.result) :
             LET text == call.sourcePapers[i].extractedText
             IN  /\ Len(call.result[i].sections) <= MaxPromptSections
                 /\ Len(call.result[i].content) <= MaxPromptTextChars + Len(TruncationMarker)
                 /\ Len(text) <= MaxPromptTextChars => call.result[i].content = text
                 /\ Len(text) > MaxPromptTextChars
                    => call.result[i].content
                       = SubSeq(text, 1, MaxPromptTextChars) \o TruncationMarker

\* more than 5 papers were found, one of the first 5 with a text of more than 2000
\* characters and more than 3 sections
C26_Witness ==
    /\ PayloadBuilt
    /\ Len(call.sourcePapers) > MaxSourcePapers
    /\ Len(call.result) = MaxSourcePapers
    /\ \E i \in 1..Len(call.result) :
          /\ Len(call.sourcePapers[i].extractedText) > MaxPromptTextChars
          /\ Len(call.sourcePapers[i].relevantSections) > MaxPromptSections

----------------------------------------------------------------------------
(* The store under addPaper and addHypothesis alone.                       *)

GraphNext ==
    \/ AddPaper
    \/ AddHypothesis

SpecGraph == Init /\ [][GraphNext]_vars

\* C28: in every state that addPaper and addHypothesis reach, the stored connections
\* and the nodes' connections lists agree in both directions: each end of a stored
\* connection lists the other end, and two nodes that list each other, or one that
\* lists the other, are the ends of a stored connection; also after a paper that has
\* hypotheses derived from it is added again
C28_ConnectionsAgreeWithAdjacency ==
    /\ \A c \in DOMAIN connections :
          /\ connections[c].sourceId \in DOMAIN knowledgeGraph
          /\ connections[c].targetId \in DOMAIN knowledgeGraph
          /\ connections[c].targetId
                \in Range(knowledgeGraph[connections[c].sourceId].connections)
          /\ connections[c].sourceId
                \in Range(knowledgeGraph[connections[c].targetId].connections)
    /\ \A n \in DOMAIN knowledgeGraph :
          \A m \in Range(knowledgeGraph[n].connections) :
              \E c \in DOMAIN connections :
                  \/ connections[c].sourceId = n /\ connections[c].targetId = m
                  \/ connections[c].sourceId = m /\ connections[c].targetId = n

----------------------------------------------------------------------------
(* The global state (globalDataManager.ts) next to the store: the actions  *)
(* that change the global sourcePapers list or the store's papers, and the *)
(* Hypotheses view that reads the store.                                   *)

\* useGlobalData.refreshAllData: the global list becomes the store's papers
RefreshAllData ==
    /\ drive.pc = "idle"
    /\ globalSourcePapers' = idsOf(getAllPapers(TheStore))
    /\ globalCount' = Len(getAllPapers(TheStore))
    /\ validatedOk' = NotValidated
    /\ last' = [op |-> "refreshAllData", id |-> "", threw |-> FALSE]
    /\ UNCHANGED <<storeVars, rag, drive, viewSourcePapers>>
    /\ AppUnchanged

\* useGlobalData.clearAllData: the store and the global list are emptied
GlobalClearAllData ==
    /\ drive.pc = "idle"
    /\ SetStore(clearAll(TheStore))
    /\ globalSourcePapers' = <<>>
    /\ globalCount' = 0
    /\ validatedOk' = NotValidated
    /\ last' = [op |-> "clearAllData", id |-> "", threw |-> FALSE]
    /\ UNCHANGED <<rag, drive, viewSourcePapers>>
    /\ AppUnchanged

GlobalNext ==
    \/ DriveProcessPDF
    \/ DriveAddSourcePaper
    \/ SyncSourcePapers
    \/ RefreshAllData
    \/ GlobalClearAllData
    \/ HandleDisconnect

SpecGlobal == InitApp /\ [][GlobalNext]_vars

\* C29: whenever no ingestion is under way, the global sourcePapers list holds exactly
\* the ids of the papers in the store, each of them once
C29_GlobalListMatchesStore ==
    drive.pc = "idle"
    => /\ Range(globalSourcePapers) = PaperIdsOf(papers)
       /\ Len(globalSourcePapers) = Cardinality(Range(globalSourcePapers))

----------------------------------------------------------------------------
(* The confidence of the hypothesis that generateRAGHypothesis stores.     *)

\* completions that state a confidence: 80, 0 and 100, and one that states none
ConfidenceCompletions ==
    {[threw |-> FALSE, text |-> "HYPOTHESIS: gene drives tumor\nCONFIDENCE: 80%"],
     [threw |-> FALSE, text |-> "HYPOTHESIS: gene drives tumor\nCONFIDENCE: 0%"],
     [threw |-> FALSE, text |-> "HYPOTHESIS: BRCA1 gene drives tumor\nCONFIDENCE: 100%"],
     [threw |-> FALSE, text |-> "HYPOTHESIS: gene drives cold tumor cells"]}

CompletionStatesConfidence ==
    /\ rag.pc = "awaiting"
    /\ CompletionReturnsOneOf(ConfidenceCompletions)

ConfidenceNext ==
    \/ DriveProcessPDF
    \/ DriveAddSourcePaper
    \/ GenerateRAGHypothesis
    \/ CompletionStatesConfidence

SpecConfidence == InitApp /\ [][ConfidenceNext]_vars

\* the hypothesis a call stores when its completion returns, and what it was made from
StoredByCompletion(completion, now) ==
    LET r == generateRAGHypothesisResume(TheStore, rag.sourcePapers, completion, now)
        parsedResponse == parseHypothesisResponse(completion.text)
    IN  [stored |-> r.result.success,
         hypothesis |-> IF r.result.success THEN r.st.hypotheses[r.result.hypothesisId]
                        ELSE NoCall,
         node |-> IF r.result.success
                  THEN r.st.knowledgeGraph[HypothesisNodeId(r.result.hypothesisId)]
                  ELSE NoCall,
         stated |-> parsedResponse.hasConfidence,
         n |-> parsedResponse.confidence,
         validationConfidence |->
            validateHypothesisAgainstSources(parsedResponse.hypothesis,
                                             rag.sourcePapers).confidence]

\* C30: when the completion states CONFIDENCE: n, the hypothesis that is stored has a
\* confidence of at most n and of at most the validation's confidence; every stored
\* hypothesis has a confidence of at most 95 and a node whose importance is in [0, 1]
C30_ConfidenceBounded ==
    /\ rag.pc = "awaiting"
       => \A completion \in ConfidenceCompletions, now \in Now :
             LET s == StoredByCompletion(completion, now)
             IN  (~completion.threw /\ s.stored /\ s.stated)
                 => /\ RatLe(s.hypothesis.confidence, Num(s.n))
                    /\ RatLe(s.hypothesis.confidence, s.validationConfidence)
    /\ \A h \in DOMAIN hypotheses :
          /\ RatLe(hypotheses[h].confidence, Num(95))
          /\ LET nodeId == hypotheses[h].knowledgeGraphNodeId
             IN  /\ nodeId \in DOMAIN knowledgeGraph
                 /\ RatLe(Num(0), knowledgeGraph[nodeId].importance)
                 /\ RatLe(knowledgeGraph[nodeId].importance, Num(1))

============================================================================
